---------------------------- MODULE Spec2Model ----------------------------
(***************************************************************************)
(* PyKED: the ReSpecTh XML <-> ChemKED converters (pyked/converters.py)    *)
(* and the semantic rules of the ChemKED validator (pyked/validation.py).  *)
(*                                                                         *)
(* Spec   : convert_ReSpecTh and convert_to_ReSpecTh, statement groups of  *)
(*          the two functions taken as steps of one blocking call.         *)
(* SpecV  : the validation skip switch, validator instances and the        *)
(*          reference rule of OurValidator.                                *)
(*                                                                         *)
(* Python dicts are functions over the set of keys they hold; text that    *)
(* the code cuts, joins or inspects is a sequence of one-character         *)
(* strings; a number written as element text is the number.                *)
(***************************************************************************)
EXTENDS Integers, Sequences, FiniteSets, TLC

VARIABLES
    pc,          \* position of the running conversion call
    root,        \* the parts of the XML document read so far
    properties,  \* convert_ReSpecTh: the dict under construction
    error,       \* the exception that ended the call, if any
    yaml,        \* the YAML file written by convert_ReSpecTh
    c,           \* convert_to_ReSpecTh: the loaded ChemKED object
    xml,         \* the XML document written by convert_to_ReSpecTh
    crossref,    \* how the Crossref query for the document's DOI ended
    modSkip,     \* validation._mod_skip_validation
    validators,  \* the OurValidator instances: made, and each one's _skip_validation
    lastCall     \* the last call into validation.py and what it did

convVars == <<pc, root, properties, error, yaml, c, xml, crossref>>

valVars == <<modSkip, validators, lastCall>>

vars == <<pc, root, properties, error, yaml, c, xml, crossref, modSkip, validators, lastCall>>

----------------------------------------------------------------------------
(* Bounds of the enumerated inputs *)

MaxComponents == 2
MaxRows == 2
MaxGroups == 3
MaxSamples == 2
MaxPoints == 2

----------------------------------------------------------------------------
(* Python values *)

None == "<None>"

EmptyDict == [k \in {} |-> None]

Has(d, k) == k \in DOMAIN d

Put(d, k, v) == [x \in (DOMAIN d) \cup {k} |-> IF x = k THEN v ELSE d[x]]

Pop(d, k) == [x \in (DOMAIN d) \ {k} |-> d[x]]

Update(d, e) == [x \in (DOMAIN d) \cup (DOMAIN e) |-> IF x \in DOMAIN e THEN e[x] ELSE d[x]]

NoError == [kind |-> "none", arg |-> <<>>]

Raise(kind, arg) == [kind |-> kind, arg |-> arg]

Ok(v) == [err |-> NoError, val |-> v]

Fail(kind, arg) == [err |-> Raise(kind, arg), val |-> EmptyDict]

Failed(r) == r.err.kind # "none"

Range(s) == {s[i] : i \in 1..Len(s)}

RECURSIVE SeqsUpTo(_, _)
SeqsUpTo(S, n) ==
    IF n = 0 THEN {<<>>}
    ELSE LET shorter == SeqsUpTo(S, n - 1)
         IN shorter \cup {Append(s, x) : s \in {t \in shorter : Len(t) = n - 1}, x \in S}

----------------------------------------------------------------------------
(* XML elements: find() gives an element or None; attrib is a dict *)

Missing == [present |-> FALSE]

Elem(text) == [present |-> TRUE, text |-> text, attrib |-> EmptyDict]

ElemA(attrib) == [present |-> TRUE, text |-> None, attrib |-> attrib]

----------------------------------------------------------------------------
(* Units: the dimension pint gives a unit name.  'Torr' is no unit of the  *)
(* registry, which knows the lower-case 'torr'.                            *)

Dimension(u) ==
    CASE u \in {"K", "kelvin"} -> "[temperature]"
      [] u \in {"Pa", "pascal", "atm", "torr"} -> "[pressure]"
      [] u \in {"s", "ms", "second"} -> "[time]"
      [] u \in {"1/ms", "1/s", "1.0 / second"} -> "1/[time]"
      [] u \in {"cm3", "meter**3"} -> "[length]**3"
      [] OTHER -> "undefined"

property_units ==
    [x \in {"temperature", "pressure", "ignition-delay", "pressure-rise",
            "compression-time", "volume", "time"} |->
        CASE x = "temperature" -> "kelvin"
          [] x = "pressure" -> "pascal"
          [] x = "ignition-delay" -> "second"
          [] x = "pressure-rise" -> "1.0 / second"
          [] x = "compression-time" -> "second"
          [] x = "volume" -> "meter**3"
          [] x = "time" -> "second"]

datagroup_properties == <<"temperature", "pressure", "ignition delay", "pressure rise">>

\* name.replace(' ', '-') on the property names of the format
Hyphenated(name) ==
    CASE name = "ignition delay" -> "ignition-delay"
      [] name = "pressure rise" -> "pressure-rise"
      [] name = "compression time" -> "compression-time"
      [] name = "initial composition" -> "initial-composition"
      [] OTHER -> name

\* ' '.join([text, units]): the quantity string of a value and its units
QuantityString(text, units) == [magnitude |-> text, units |-> units]

----------------------------------------------------------------------------
(* validation.py: what a rule leaves behind, and the unit and quantity     *)
(* rules                                                                   *)

NoResult == [errors |-> <<>>, raised |-> "none", warned |-> 0, lookups |-> 0]

\* self._error(field, message)
WithError(res, field, message) ==
    [res EXCEPT !.errors = Append(@, [field |-> field, message |-> message])]

WithWarning(res) == [res EXCEPT !.warned = @ + 1]

validate_isvalid_unit(skip, isvalid_unit, field, value) ==
    IF ~(isvalid_unit /\ ~skip)
    THEN NoResult
    ELSE IF Dimension(value.units) = "undefined"
    THEN [NoResult EXCEPT !.raised = "UndefinedUnitError"]
    ELSE IF Dimension(value.units) # Dimension(property_units[field])
    THEN WithError(NoResult, field, <<"incompatible units; should be consistent with",
                                      property_units[field]>>)
    ELSE NoResult

\* as if only values below zero were refused
RefusesNegativeOnly(skip, isvalid_quantity, field, value) ==
    IF ~(isvalid_quantity /\ ~skip)
    THEN NoResult
    ELSE IF Dimension(value.units) = "undefined"
    THEN [NoResult EXCEPT !.raised = "UndefinedUnitError"]
    ELSE IF Dimension(value.units) # Dimension(property_units[field])
    THEN WithError(NoResult, field, <<"incompatible units; should be consistent with",
                                      property_units[field]>>)
    ELSE IF value.magnitude < 0
    THEN WithError(NoResult, field, <<"value must be greater than 0.0", property_units[field]>>)
    ELSE NoResult

validate_isvalid_quantity(skip, isvalid_quantity, field, value) ==
    IF ~(isvalid_quantity /\ ~skip)
    THEN NoResult
    ELSE IF Dimension(value.units) = "undefined"
    THEN [NoResult EXCEPT !.raised = "UndefinedUnitError"]
    ELSE IF Dimension(value.units) # Dimension(property_units[field])
    THEN WithError(NoResult, field, <<"incompatible units; should be consistent with",
                                      property_units[field]>>)
    ELSE IF value.magnitude <= 0
    THEN WithError(NoResult, field, <<"value must be greater than 0.0", property_units[field]>>)
    ELSE NoResult

----------------------------------------------------------------------------
(* get_file_metadata *)

Version == "0.1.0"

get_file_metadata(fileAuthor) ==
    IF ~fileAuthor.present
    THEN Fail("MissingElementError", <<"fileAuthor">>)
    ELSE IF fileAuthor.text = ""
    THEN Fail("MissingElementError", <<"fileAuthor">>)
    ELSE Ok([x \in {"file-author", "file-version", "chemked-version"} |->
               CASE x = "file-author" -> [name |-> fileAuthor.text]
                 [] x = "file-version" -> 0
                 [] x = "chemked-version" -> Version])

----------------------------------------------------------------------------
(* get_reference *)

\* int() of the decimal strings that occur
IntOf(s) ==
    CASE s = "157" -> 157
      [] s = "158" -> 158
      [] s = "2010" -> 2010
      [] s = "2011" -> 2011

\* the message Crossref returns for the DOI of the document
CrossrefMessage ==
    [journal |-> "Combustion and Flame", year |-> 2010, volume |-> "157",
     page |-> "1-10",
     author |-> <<[given |-> "Kyle", family |-> "Niemeyer"]>>]

ReferenceFromLookup(doi, ref) ==
    [x \in {"doi", "journal", "year", "volume", "pages", "authors"} |->
        CASE x = "doi" -> doi
          [] x = "journal" -> ref.journal
          [] x = "year" -> ref.year
          [] x = "volume" -> IntOf(ref.volume)
          [] x = "pages" -> ref.page
          [] x = "authors" ->
                [i \in 1..Len(ref.author) |->
                    [name |-> <<ref.author[i].given, " ", ref.author[i].family>>]]]

\* the except KeyError branch: the preferredKey citation, closed by a period
DetailFallback(reference, elem) ==
    IF ~Has(elem.attrib, "preferredKey")
    THEN Fail("MissingAttributeError", <<"preferredKey", "bibliographyLink">>)
    ELSE LET key == elem.attrib["preferredKey"]
         IN IF Len(key) = 0
            THEN Fail("IndexError", <<"string index out of range">>)
            ELSE Ok(Put(reference, "detail",
                        IF key[Len(key)] # "." THEN Append(key, ".") ELSE key))

get_reference(elem, lookup) ==
    IF ~elem.present
    THEN Fail("MissingElementError", <<"bibliographyLink">>)
    ELSE IF ~Has(elem.attrib, "doi")
    THEN DetailFallback(EmptyDict, elem)
    ELSE LET reference == Put(EmptyDict, "doi", elem.attrib["doi"])
         IN IF lookup = "found"
            THEN Ok(ReferenceFromLookup(elem.attrib["doi"], CrossrefMessage))
            ELSE DetailFallback(reference, elem)

----------------------------------------------------------------------------
(* get_experiment_kind *)

get_experiment_kind(experimentType, kind) ==
    IF ~experimentType.present
    THEN Fail("AttributeError", <<"'NoneType' object has no attribute 'text'">>)
    ELSE IF experimentType.text # "Ignition delay measurement"
    THEN Fail("NotImplementedError", <<experimentType.text>>)
    ELSE IF ~kind.present
    THEN Fail("MissingElementError", <<"apparatus/kind">>)
    ELSE IF kind.text \notin {"shock tube", "rapid compression machine"}
    THEN Fail("NotImplementedError", <<kind.text>>)
    ELSE Ok([x \in {"experiment-type", "apparatus"} |->
               CASE x = "experiment-type" -> "ignition delay"
                 [] x = "apparatus" -> [kind |-> kind.text, institution |-> "", facility |-> ""]])

----------------------------------------------------------------------------
(* get_common_properties *)

\* the loop over the components of one 'initial composition' property;
\* ctype is composition_type, None before the first component sets it
RECURSIVE ReadComponents(_, _, _, _)
ReadComponents(components, i, species, ctype) ==
    IF i > Len(components)
    THEN IF ctype \notin {"mole fraction", "mass fraction"}
         THEN Fail("AssertionError", <<"composition_type">>)
         ELSE Ok([species |-> species, kind |-> ctype])
    ELSE LET child == components[i]
             spec == IF Has(child.speciesLink, "InChI")
                     THEN [x \in {"species-name", "InChI", "amount"} |->
                             CASE x = "species-name" -> child.speciesLink["preferredKey"]
                               [] x = "InChI" -> child.speciesLink["InChI"]
                               [] x = "amount" -> <<child.amount.text>>]
                     ELSE [x \in {"species-name", "amount"} |->
                             CASE x = "species-name" -> child.speciesLink["preferredKey"]
                               [] x = "amount" -> <<child.amount.text>>]
             units == child.amount.attrib["units"]
         IN \* 'if not composition_type': None and the empty string are both false
            IF ctype \in {None, ""}
            THEN ReadComponents(components, i + 1, Append(species, spec), units)
            ELSE IF ctype # units
            THEN Fail("KeywordError", <<"inconsistent initial composition units">>)
            ELSE ReadComponents(components, i + 1, Append(species, spec), ctype)

\* one <property> of commonProperties, added to the dict read so far
ReadCommonProperty(props, elem) ==
    LET name == elem.attrib["name"]
    IN IF name = "initial composition"
       THEN LET r == ReadComponents(elem.components, 1, <<>>, None)
            IN IF Failed(r) THEN r ELSE Ok(Put(props, "composition", r.val))
       ELSE IF name \in {"temperature", "pressure", "pressure rise", "compression time"}
       THEN LET field == Hyphenated(name)
                units == IF elem.attrib["units"] = "Torr" THEN "torr" ELSE elem.attrib["units"]
            IN IF Dimension(units) = "undefined"
               THEN Fail("UndefinedUnitError", <<units>>)
               ELSE IF Dimension(units) # Dimension(property_units[field])
               THEN Fail("KeywordError", <<"units incompatible for property", name>>)
               ELSE Ok(Put(props, field, <<QuantityString(elem.value, units)>>))
       ELSE Fail("KeywordError", <<"not supported as common property", name>>)

RECURSIVE CommonFrom(_, _, _)
CommonFrom(elems, i, props) ==
    IF i > Len(elems)
    THEN Ok(props)
    ELSE LET r == ReadCommonProperty(props, elems[i])
         IN IF Failed(r) THEN r ELSE CommonFrom(elems, i + 1, r.val)

get_common_properties(commonProperties) == CommonFrom(commonProperties, 1, EmptyDict)

----------------------------------------------------------------------------
(* get_ignition_type *)

Upper(ch) ==
    CASE ch = "p" -> "P"
      [] ch = "t" -> "T"
      [] ch = "o" -> "O"
      [] ch = "h" -> "H"
      [] ch = "c" -> "C"
      [] ch = "e" -> "E"
      [] ch = "x" -> "X"
      [] OTHER -> ch

UpperStr(s) == [i \in 1..Len(s) |-> Upper(s[i])]

RECURSIVE RStrip(_, _)
RStrip(s, ch) ==
    IF Len(s) > 0 /\ s[Len(s)] = ch THEN RStrip(SubSeq(s, 1, Len(s) - 1), ch) ELSE s

\* len(s.split(ch)): one more than the number of separators
SplitCount(s, ch) == Cardinality({i \in 1..Len(s) : s[i] = ch}) + 1

IgnitionTargets == {<<"P">>, <<"T">>, <<"O", "H">>, <<"O", "H", "*">>,
                    <<"C", "H", "*">>, <<"C", "H">>}

IgnitionTypes == {"max", "d/dt max", "1/2 max", "min"}

\* as if the ignition type were not checked against the list
AcceptsAnyType(elem) ==
    IF ~elem.present
    THEN Fail("MissingElementError", <<"ignitionType">>)
    ELSE IF ~Has(elem.attrib, "target")
    THEN Fail("MissingAttributeError", <<"target", "ignitionType">>)
    ELSE IF ~Has(elem.attrib, "type")
    THEN Fail("MissingAttributeError", <<"type", "ignitionType">>)
    ELSE LET stripped == UpperStr(RStrip(elem.attrib["target"], ";"))
             ign_type == elem.attrib["type"]
             ign_target == CASE stripped = <<"O", "H", "E", "X">> -> <<"O", "H", "*">>
                             [] stripped = <<"C", "H", "E", "X">> -> <<"C", "H", "*">>
                             [] OTHER -> stripped
         IN IF SplitCount(stripped, ";") > 1
            THEN Fail("NotImplementedError", <<"Multiple ignition targets not supported.">>)
            ELSE IF ign_target \notin IgnitionTargets
            THEN Fail("KeywordError", <<"not valid ignition target">>)
            ELSE Ok([type |-> ign_type,
                     target |-> CASE ign_target = <<"P">> -> "pressure"
                                  [] ign_target = <<"T">> -> "temperature"
                                  [] ign_target = <<"O", "H">> -> "OH"
                                  [] ign_target = <<"O", "H", "*">> -> "OH*"
                                  [] ign_target = <<"C", "H">> -> "CH"
                                  [] ign_target = <<"C", "H", "*">> -> "CH*"])

get_ignition_type(elem) ==
    IF ~elem.present
    THEN Fail("MissingElementError", <<"ignitionType">>)
    ELSE IF ~Has(elem.attrib, "target")
    THEN Fail("MissingAttributeError", <<"target", "ignitionType">>)
    ELSE IF ~Has(elem.attrib, "type")
    THEN Fail("MissingAttributeError", <<"type", "ignitionType">>)
    ELSE LET stripped == UpperStr(RStrip(elem.attrib["target"], ";"))
             ign_type == elem.attrib["type"]
             ign_target == CASE stripped = <<"O", "H", "E", "X">> -> <<"O", "H", "*">>
                             [] stripped = <<"C", "H", "E", "X">> -> <<"C", "H", "*">>
                             [] OTHER -> stripped
         IN IF SplitCount(stripped, ";") > 1
            THEN Fail("NotImplementedError", <<"Multiple ignition targets not supported.">>)
            ELSE IF ign_target \notin IgnitionTargets
            THEN Fail("KeywordError", <<"not valid ignition target">>)
            ELSE IF ign_type \notin IgnitionTypes
            THEN Fail("KeywordError", <<"not valid ignition type">>)
            ELSE Ok([type |-> ign_type,
                     target |-> CASE ign_target = <<"P">> -> "pressure"
                                  [] ign_target = <<"T">> -> "temperature"
                                  [] ign_target = <<"O", "H">> -> "OH"
                                  [] ign_target = <<"O", "H", "*">> -> "OH*"
                                  [] ign_target = <<"C", "H">> -> "CH"
                                  [] ign_target = <<"C", "H", "*">> -> "CH*"])

----------------------------------------------------------------------------
(* get_datapoints *)

\* the first property of the group, in document order, whose name is not a
\* dataGroup property (0 when all are)
FirstInvalidProperty(props) ==
    LET bad == {i \in 1..Len(props) : props[i]["name"] \notin Range(datagroup_properties)}
    IN IF bad = {} THEN 0 ELSE CHOOSE i \in bad : \A j \in bad : i <= j

\* property_id and unit_id: id -> name, id -> units (a later property of the
\* same id replaces an earlier one)
IdMap(props, attr) ==
    [id \in {props[i]["id"] : i \in 1..Len(props)} |->
        LET last == CHOOSE i \in 1..Len(props) :
                        /\ props[i]["id"] = id
                        /\ \A j \in 1..Len(props) : props[j]["id"] = id => j <= i
        IN props[last][attr]]

\* one <dataPoint> row: a dict of the values present in the row
RECURSIVE ReadRow(_, _, _, _, _)
ReadRow(row, i, property_id, unit_id, datapoint) ==
    IF i > Len(row)
    THEN datapoint
    ELSE LET val == row[i]
             units == IF unit_id[val.tag] = "Torr" THEN "torr" ELSE unit_id[val.tag]
         IN ReadRow(row, i + 1, property_id, unit_id,
                    Put(datapoint, Hyphenated(property_id[val.tag]),
                        <<QuantityString(val.text, units)>>))

\* the tag of the last property of the group with the given name (None when
\* the group has none: time_tag / volume_tag stay unbound)
TagOf(props, name) ==
    LET hits == {i \in 1..Len(props) : props[i]["name"] = name}
    IN IF hits = {} THEN None
       ELSE props[CHOOSE i \in hits : \A j \in hits : j <= i]["id"]

UnitsOf(props, name) ==
    LET hits == {i \in 1..Len(props) : props[i]["name"] = name}
    IN props[CHOOSE i \in hits : \A j \in hits : j <= i]["units"]

\* the value of the last child of the row with the given tag, None if none
RowValue(row, tag) ==
    LET hits == {i \in 1..Len(row) : row[i].tag = tag}
    IN IF hits = {} THEN None
       ELSE row[CHOOSE i \in hits : \A j \in hits : j <= i].text

\* the second dataGroup: the volume-time history
ReadVolumeHistory(dataGroup) ==
    LET time_tag == TagOf(dataGroup.props, "time")
        volume_tag == TagOf(dataGroup.props, "volume")
    IN IF time_tag = None \/ volume_tag = None
       THEN Fail("UnboundLocalError", <<"time_dict or volume_dict">>)
       ELSE Ok([time |-> [units |-> UnitsOf(dataGroup.props, "time"), column |-> 0],
                volume |-> [units |-> UnitsOf(dataGroup.props, "volume"), column |-> 1],
                values |-> [i \in 1..Len(dataGroup.points) |->
                               <<RowValue(dataGroup.points[i], time_tag),
                                 RowValue(dataGroup.points[i], volume_tag)>>]])

\* the datapoints of the first dataGroup, before the group count is looked at
FirstGroupDatapoints(dataGroup) ==
    LET property_id == IdMap(dataGroup.props, "name")
        unit_id == IdMap(dataGroup.props, "units")
    IN [i \in 1..Len(dataGroup.points) |->
           ReadRow(dataGroup.points[i], 1, property_id, unit_id, EmptyDict)]

\* as if only the kind of apparatus were asserted
AssertsKindOnly(kind, datapoints) ==
    IF ~(kind.present /\ kind.text = "rapid compression machine")
    THEN Raise("AssertionError", <<"Second dataGroup only valid for RCM.">>)
    ELSE NoError

\* lines 345 and 348: the two asserts on a second dataGroup
SecondGroupAsserts(kind, datapoints) ==
    IF ~(kind.present /\ kind.text = "rapid compression machine")
    THEN Raise("AssertionError", <<"Second dataGroup only valid for RCM.">>)
    ELSE IF Len(datapoints) # 1
    THEN Raise("AssertionError", <<"Multiple datapoints for single volume history.">>)
    ELSE NoError

get_datapoints(dataGroups, kind) ==
    IF Len(dataGroups) = 0
    THEN Fail("MissingElementError", <<"dataGroup">>)
    ELSE LET dataGroup == dataGroups[1]
             datapoints == FirstGroupDatapoints(dataGroup)
         IN IF FirstInvalidProperty(dataGroup.props) # 0
            THEN Fail("KeyError", <<"not valid dataPoint property">>)
            ELSE IF Len(dataGroup.props) = 0
            THEN Fail("MissingElementError", <<"property">>)
            ELSE IF Len(datapoints) = 0
            THEN Fail("MissingElementError", <<"dataPoint">>)
            ELSE IF Len(dataGroups) = 2
            THEN IF SecondGroupAsserts(kind, datapoints) # NoError
                 THEN [err |-> SecondGroupAsserts(kind, datapoints), val |-> EmptyDict]
                 ELSE LET vh == ReadVolumeHistory(dataGroups[2])
                      IN IF Failed(vh) THEN vh
                         ELSE Ok(<<Put(datapoints[1], "volume-history", vh.val)>>)
            ELSE IF Len(dataGroups) > 2
            THEN Fail("NotImplementedError", <<"More than two DataGroups not supported.">>)
            ELSE Ok(datapoints)

----------------------------------------------------------------------------
(* convert_ReSpecTh, lines 431-475: the checks across fields, then the     *)
(* common properties applied to every datapoint                            *)

\* dp.get(key) is true: the key is there with a non-empty value
Gets(dp, key) == Has(dp, key)

AnyDatapoint(datapoints, key) == \E i \in 1..Len(datapoints) : Gets(datapoints[i], key)

\* as if pressure rise were refused only in the common properties
PressureRiseInCommonOnly(props) ==
    LET common == props["common-properties"]
        dps == props["datapoints"]
        kind == props["apparatus"].kind
    IN IF Has(common, "volume") /\ ~Has(common, "time")
       THEN Raise("KeywordError", <<"Time values needed for volume history">>)
       ELSE IF ~Has(common, "volume")
               /\ (\E i \in 1..Len(dps) : Has(dps[i], "volume"))
               /\ ~(\E i \in 1..Len(dps) : Has(dps[i], "time"))
       THEN Raise("KeywordError", <<"Time values needed for volume history">>)
       ELSE IF (Has(common, "compression-time") \/ AnyDatapoint(dps, "compression-time"))
               /\ kind = "shock tube"
       THEN Raise("KeywordError", <<"Compression time cannot be defined for shock tube.">>)
       ELSE IF Has(common, "pressure-rise") /\ kind = "rapid compression machine"
       THEN Raise("KeywordError", <<"Pressure rise cannot be defined for RCM.">>)
       ELSE IF \/ Has(common, "volume") /\ Has(common, "pressure-rise")
               \/ Has(common, "volume") /\ AnyDatapoint(dps, "pressure-rise")
               \/ Has(common, "pressure-rise") /\ AnyDatapoint(dps, "volume")
       THEN Raise("KeywordError", <<"Both volume history and pressure rise cannot be specified">>)
       ELSE NoError

CombinationError(props) ==
    LET common == props["common-properties"]
        dps == props["datapoints"]
        kind == props["apparatus"].kind
    IN IF Has(common, "volume") /\ ~Has(common, "time")
       THEN Raise("KeywordError", <<"Time values needed for volume history">>)
       ELSE IF ~Has(common, "volume")
               /\ (\E i \in 1..Len(dps) : Has(dps[i], "volume"))
               /\ ~(\E i \in 1..Len(dps) : Has(dps[i], "time"))
       THEN Raise("KeywordError", <<"Time values needed for volume history">>)
       ELSE IF (Has(common, "compression-time") \/ AnyDatapoint(dps, "compression-time"))
               /\ kind = "shock tube"
       THEN Raise("KeywordError", <<"Compression time cannot be defined for shock tube.">>)
       ELSE IF (Has(common, "pressure-rise") \/ AnyDatapoint(dps, "pressure-rise"))
               /\ kind = "rapid compression machine"
       THEN Raise("KeywordError", <<"Pressure rise cannot be defined for RCM.">>)
       ELSE IF \/ Has(common, "volume") /\ Has(common, "pressure-rise")
               \/ Has(common, "volume") /\ AnyDatapoint(dps, "pressure-rise")
               \/ Has(common, "pressure-rise") /\ AnyDatapoint(dps, "volume")
       THEN Raise("KeywordError", <<"Both volume history and pressure rise cannot be specified">>)
       ELSE NoError

\* for idx ...: for prop in common-properties: datapoints[idx][prop] = common[prop]
ApplyCommon(datapoint, common) == Update(datapoint, common)

Broadcast(props) ==
    LET common == props["common-properties"]
        dps == props["datapoints"]
        applied == [i \in 1..Len(dps) |-> ApplyCommon(dps[i], common)]
    IN Put(Put(props, "datapoints", applied),
           "common-properties", Pop(common, "compression-time"))

----------------------------------------------------------------------------
(* The ChemKED object convert_to_ReSpecTh reads.  An attribute that may be *)
(* None is a sequence of length 0 (None) or 1 (the value).                 *)

\* str(quantity.units): pint writes the long name of a unit
LongUnit(u) ==
    CASE u = "K" -> "kelvin"
      [] u = "Pa" -> "pascal"
      [] u = "atm" -> "standard_atmosphere"
      [] u = "s" -> "second"
      [] u = "ms" -> "millisecond"
      [] u = "1/ms" -> "1 / millisecond"
      [] u = "1/s" -> "1 / second"
      [] u = "cm3" -> "centimeter ** 3"
      [] OTHER -> u

\* Q_(string): the quantity of a quantity string
Quantity(qs) == [magnitude |-> qs.magnitude, units |-> LongUnit(qs.units)]

Optional(d, key) == IF Has(d, key) THEN <<d[key]>> ELSE <<>>

OptionalQuantity(d, key) == IF Has(d, key) THEN <<Quantity(d[key][1])>> ELSE <<>>

LoadVolumeHistory(vh) ==
    [time |-> [units |-> LongUnit(vh.time.units),
               values |-> [i \in 1..Len(vh.values) |-> vh.values[i][1]]],
     volume |-> [units |-> LongUnit(vh.volume.units),
                 values |-> [i \in 1..Len(vh.values) |-> vh.values[i][2]]]]

LoadDataPoint(dp) ==
    [x \in {"temperature", "pressure", "ignition_delay", "pressure_rise",
            "compression_time", "composition", "composition_type",
            "ignition_type", "volume_history"} |->
        CASE x = "temperature" -> OptionalQuantity(dp, "temperature")
          [] x = "pressure" -> OptionalQuantity(dp, "pressure")
          [] x = "ignition_delay" -> OptionalQuantity(dp, "ignition-delay")
          [] x = "pressure_rise" -> OptionalQuantity(dp, "pressure-rise")
          [] x = "compression_time" -> OptionalQuantity(dp, "compression-time")
          [] x = "composition" ->
                IF Has(dp, "composition") THEN dp["composition"].species ELSE <<>>
          [] x = "composition_type" ->
                IF Has(dp, "composition") THEN dp["composition"].kind ELSE None
          [] x = "ignition_type" -> Optional(dp, "ignition-type")
          [] x = "volume_history" ->
                IF Has(dp, "volume-history")
                THEN <<LoadVolumeHistory(dp["volume-history"])>> ELSE <<>>]

LoadReference(ref) ==
    [doi |-> Optional(ref, "doi"), journal |-> Optional(ref, "journal"),
     year |-> Optional(ref, "year"), volume |-> Optional(ref, "volume"),
     pages |-> Optional(ref, "pages"), detail |-> Optional(ref, "detail"),
     authors |-> Optional(ref, "authors")]

\* the quantities of the datapoints, each under the quantity rule
QuantityFields == <<"temperature", "pressure", "ignition-delay", "pressure-rise",
                    "compression-time">>

RECURSIVE FieldsInError(_, _)
FieldsInError(dp, n) ==
    IF n = 0 THEN <<>>
    ELSE LET field == QuantityFields[n]
             res == IF Has(dp, field)
                    THEN validate_isvalid_quantity(FALSE, TRUE, field, dp[field][1])
                    ELSE NoResult
         IN FieldsInError(dp, n - 1)
            \o (IF res.raised # "none" THEN <<[field |-> field, message |-> <<res.raised>>]>>
                ELSE res.errors)

RECURSIVE ErrorsUpTo(_, _)
ErrorsUpTo(dps, n) ==
    IF n = 0 THEN <<>>
    ELSE ErrorsUpTo(dps, n - 1) \o FieldsInError(dps[n], Len(QuantityFields))

\* v.validate(properties): the errors that make the loader raise ValueError
ValidationErrors(props) ==
    (IF props["file-author"].name = None
     THEN <<[field |-> "file-author", message |-> <<"null value not allowed">>]>>
     ELSE <<>>)
    \o ErrorsUpTo(props["datapoints"], Len(props["datapoints"]))

ChemKED(props) ==
    [file_author |-> props["file-author"],
     file_version |-> props["file-version"],
     experiment_type |-> props["experiment-type"],
     reference |-> LoadReference(props["reference"]),
     apparatus |-> props["apparatus"],
     datapoints |-> [i \in 1..Len(props["datapoints"]) |->
                        LoadDataPoint(props["datapoints"][i])]]

----------------------------------------------------------------------------
(* convert_to_ReSpecTh *)

Underscored(name) ==
    CASE name = "ignition delay" -> "ignition_delay"
      [] name = "pressure rise" -> "pressure_rise"
      [] OTHER -> name

\* 'x{}'.format(n)
ColumnId(n) ==
    CASE n = 1 -> "x1" [] n = 2 -> "x2" [] n = 3 -> "x3" [] n = 4 -> "x4"
      [] n = 5 -> "x5" [] n = 6 -> "x6" [] n = 7 -> "x7" [] n = 8 -> "x8"
      [] n = 9 -> "x9" [] n = 10 -> "x10" [] n = 11 -> "x11" [] n = 12 -> "x12"

labels ==
    [x \in {"temperature", "pressure", "ignition delay", "pressure rise"} |->
        CASE x = "temperature" -> "T"
          [] x = "pressure" -> "P"
          [] x = "ignition delay" -> "tau"
          [] x = "pressure rise" -> "dP/dt"]

RECURSIVE Flatten(_)
Flatten(ss) == IF Len(ss) = 0 THEN <<>> ELSE ss[1] \o Flatten(Tail(ss))

\* lines 530-538: the bibliographyLink element
ExportReference(reference) ==
    IF Len(reference.authors) = 0
    THEN Fail("TypeError", <<"'NoneType' object is not iterable">>)
    ELSE IF Len(reference.journal) = 0
    THEN Fail("TypeError", <<"unsupported operand type(s) for +: 'NoneType' and 'str'">>)
    ELSE IF Len(reference.pages) = 0 \/ Len(reference.detail) = 0
    THEN Fail("TypeError", <<"must be str, not NoneType">>)
    ELSE IF Len(reference.doi) = 0
    THEN Fail("TypeError", <<"Argument must be bytes or unicode, got 'NoneType'">>)
    ELSE LET authors == reference.authors[1]
             citation ==
                 Flatten([i \in 1..Len(authors) |-> authors[i].name \o <<", ">>])
                 \o <<reference.journal[1], " (", reference.year, ") ",
                      reference.volume, ":", reference.pages[1], ". ">>
                 \o reference.detail[1]
         IN Ok(ElemA([x \in {"preferredKey", "doi"} |->
                         IF x = "doi" THEN reference.doi[1] ELSE citation]))

\* lines 547-566: composition is common when every datapoint has the first one's
CompositionIsCommon(dps) == \A i \in 1..Len(dps) : dps[1]["composition"] = dps[i]["composition"]

\* lines 570-577: a dataGroup property is common when there are several
\* datapoints, the first has it and all have the same
PropertyIsCommon(dps, prop_name) ==
    /\ Len(dps) > 1
    /\ dps[1][Underscored(prop_name)] # <<>>
    /\ \A i \in 1..Len(dps) : dps[1][Underscored(prop_name)] = dps[i][Underscored(prop_name)]

\* the list 'common'
CommonList(dps) ==
    (IF CompositionIsCommon(dps) THEN <<"composition">> ELSE <<>>)
    \o SelectSeq(datagroup_properties, LAMBDA n : PropertyIsCommon(dps, n))

CompositionElement(dp) ==
    [attrib |-> [name |-> "initial composition"], value |-> 0,
     components |->
        [i \in 1..Len(dp["composition"]) |->
            [speciesLink |->
                 IF Has(dp["composition"][i], "InChI")
                 THEN [x \in {"preferredKey", "InChI"} |->
                         IF x = "InChI" THEN dp["composition"][i]["InChI"]
                         ELSE dp["composition"][i]["species-name"]]
                 ELSE [x \in {"preferredKey"} |-> dp["composition"][i]["species-name"]],
             amount |-> [text |-> dp["composition"][i]["amount"][1],
                         attrib |-> [units |-> dp["composition_type"]]]]]]

ScalarElement(dp, prop_name) ==
    [attrib |-> [description |-> "", name |-> prop_name,
                 units |-> dp[Underscored(prop_name)][1].units],
     value |-> dp[Underscored(prop_name)][1].magnitude,
     components |-> <<>>]

\* the commonProperties element, in the order of 'common'
ExportCommon(dps) ==
    LET common == CommonList(dps)
    IN [i \in 1..Len(common) |->
           IF common[i] = "composition" THEN CompositionElement(dps[1])
           ELSE ScalarElement(dps[1], common[i])]

\* bool(quantity): None and a zero magnitude are false
Truthy(q) == Len(q) = 1 /\ q[1].magnitude # 0

\* lines 599-611: the names of the property columns of the first dataGroup
ColumnNames(dps) ==
    LET common == Range(CommonList(dps))
    IN SelectSeq(datagroup_properties,
                 LAMBDA n : /\ n \notin common
                            /\ \E i \in 1..Len(dps) : Truthy(dps[i][Underscored(n)]))

\* lines 613-619: property_idx, the attribute each column reads, in id order
PropertyIdx(dps) ==
    ColumnNames(dps)
    \o (IF "composition" \in Range(CommonList(dps)) THEN <<>>
        ELSE [i \in 1..Len(dps[1]["composition"]) |-> dps[1]["composition"][i]["species-name"]])

ColumnElement(dps, property_idx, n) ==
    IF n <= Len(ColumnNames(dps))
    THEN [x \in {"description", "name", "units", "id", "label"} |->
            CASE x = "description" -> ""
              [] x = "name" -> property_idx[n]
              [] x = "units" -> dps[1][Underscored(property_idx[n])][1].units
              [] x = "id" -> ColumnId(n)
              [] x = "label" -> labels[property_idx[n]]]
    ELSE [x \in {"description", "name", "units", "id", "label"} |->
            CASE x = "description" -> ""
              [] x = "name" -> "composition"
              [] x = "units" -> dps[1]["composition_type"]
              [] x = "id" -> ColumnId(n)
              [] x = "label" -> property_idx[n]]

\* lines 588-634: the first dataGroup
ExportDataGroup(dps) ==
    LET property_idx == PropertyIdx(dps)
        names == ColumnNames(dps)
    IN IF \E n \in 1..Len(names) : Len(dps[1][Underscored(names[n])]) = 0
       THEN Fail("AttributeError", <<"'NoneType' object has no attribute 'units'">>)
       ELSE IF \E i \in 1..Len(dps), n \in 1..Len(property_idx) :
                   ~Has(dps[i], Underscored(property_idx[n]))
       THEN Fail("AttributeError", <<"'DataPoint' object has no attribute">>)
       ELSE IF \E i \in 1..Len(dps), n \in 1..Len(property_idx) :
                   Len(dps[i][Underscored(property_idx[n])]) = 0
       THEN Fail("AttributeError", <<"'NoneType' object has no attribute 'magnitude'">>)
       ELSE Ok([props |-> [n \in 1..Len(property_idx) |-> ColumnElement(dps, property_idx, n)],
                points |-> [i \in 1..Len(dps) |->
                               [n \in 1..Len(property_idx) |->
                                   [tag |-> ColumnId(n),
                                    text |-> dps[i][Underscored(property_idx[n])][1].magnitude]]]])

HasVolumeHistory(dp) == Len(dp["volume_history"]) = 1

\* as if the export were refused only for several datapoints with a history
SeveralHistories(dps) ==
    Cardinality({i \in 1..Len(dps) : HasVolumeHistory(dps[i])}) > 1

\* lines 637-639: the condition under which the export is refused
ManyWithVolumeHistory(dps) ==
    Len(dps) > 1 /\ \E i \in 1..Len(dps) : HasVolumeHistory(dps[i])

\* lines 644-674: the second dataGroup, from the first datapoint's history
ExportVolumeHistory(dps) ==
    LET volume_history == dps[1]["volume_history"][1]
        n == Len(PropertyIdx(dps))
        samples == IF Len(volume_history.time.values) <= Len(volume_history.volume.values)
                   THEN Len(volume_history.time.values)
                   ELSE Len(volume_history.volume.values)
    IN [props |-> <<[x \in {"description", "name", "units", "id", "label"} |->
                       CASE x = "description" -> ""
                         [] x = "name" -> "time"
                         [] x = "units" -> volume_history.time.units
                         [] x = "id" -> ColumnId(n + 1)
                         [] x = "label" -> "t"],
                    [x \in {"description", "name", "units", "id", "label"} |->
                       CASE x = "description" -> ""
                         [] x = "name" -> "volume"
                         [] x = "units" -> volume_history.volume.units
                         [] x = "id" -> ColumnId(n + 2)
                         [] x = "label" -> "V"]>>,
        points |-> [i \in 1..samples |->
                       <<[tag |-> ColumnId(n + 1), text |-> volume_history.time.values[i]],
                         [tag |-> ColumnId(n + 2), text |-> volume_history.volume.values[i]]>>]]

\* lines 636-674: the dataGroups after the first
ExportSecondGroup(dps) ==
    IF ManyWithVolumeHistory(dps)
    THEN Fail("NotImplementedError", <<"multiple datapoints with a volume history">>)
    ELSE IF HasVolumeHistory(dps[1])
    THEN Ok(<<ExportVolumeHistory(dps)>>)
    ELSE Ok(<<>>)

\* the characters of the target names the exporter writes
Chars(str) ==
    CASE str = "P" -> <<"P">>
      [] str = "T" -> <<"T">>
      [] str = "OH" -> <<"O", "H">>
      [] str = "OH*" -> <<"O", "H", "*">>
      [] str = "CH" -> <<"C", "H">>
      [] str = "CH*" -> <<"C", "H", "*">>

\* lines 676-685: the ignitionType element
ExportIgnition(dp) ==
    LET ignition_type == dp["ignition_type"][1]
    IN ElemA([x \in {"target", "type"} |->
                 IF x = "type" THEN ignition_type.type
                 ELSE CASE ignition_type.target = "pressure" -> Chars("P")
                        [] ignition_type.target = "temperature" -> Chars("T")
                        [] OTHER -> Chars(ignition_type.target)])

convert_to_ReSpecTh(ck) ==
    IF ck.experiment_type # "ignition delay"
    THEN Fail("NotImplementedError", <<"Only ignition delay type supported for conversion.">>)
    ELSE LET reference == ExportReference(ck.reference)
             dps == ck.datapoints
             first == ExportDataGroup(dps)
             second == ExportSecondGroup(dps)
         IN IF Failed(reference) THEN reference
            ELSE IF Failed(first) THEN first
            ELSE IF Failed(second) THEN second
            ELSE IF Len(dps[1]["ignition_type"]) = 0
            THEN Fail("TypeError", <<"'NoneType' object is not subscriptable">>)
            ELSE Ok([x \in {"fileAuthor", "experimentType", "bibliographyLink", "kind",
                            "commonProperties", "dataGroups", "ignitionType"} |->
                       CASE x = "fileAuthor" -> Elem(ck.file_author.name)
                         [] x = "experimentType" -> Elem("Ignition delay measurement")
                         [] x = "bibliographyLink" -> reference.val
                         [] x = "kind" -> Elem(ck.apparatus.kind)
                         [] x = "commonProperties" -> ExportCommon(dps)
                         [] x = "dataGroups" -> <<first.val>> \o second.val
                         [] x = "ignitionType" -> ExportIgnition(dps[1])])

----------------------------------------------------------------------------
(* The XML documents given to convert_ReSpecTh *)

\* no element, an element without text (text is None), empty text, a name
FileAuthorChoices == {Missing, ElemA(EmptyDict), Elem(""), Elem("Kyle Niemeyer")}

Attrs1(k, v) == [x \in {k} |-> v]

Attrs2(k1, v1, k2, v2) == [x \in {k1, k2} |-> IF x = k1 THEN v1 ELSE v2]

Doi == "10.1016/j.combustflame.2010.01.001"

\* a bibliographyLink and, when it has a doi, how the Crossref query ends
BibliographyChoices ==
    {[elem |-> e, lookup |-> "unused"] :
        e \in {Missing, ElemA(EmptyDict),
               ElemA(Attrs1("preferredKey", <<"Smith 2010">>)),
               ElemA(Attrs1("preferredKey", <<"Smith 2010", ".">>))}}
    \cup {[elem |-> ElemA(Attrs1("doi", Doi)), lookup |-> l] : l \in {"notfound", "unreachable"}}
    \cup {[elem |-> ElemA(Attrs2("doi", Doi, "preferredKey", <<"Smith 2010">>)), lookup |-> l] :
             l \in {"found", "notfound", "unreachable"}}

ExperimentTypeChoices ==
    {Missing, Elem("Ignition delay measurement"), Elem("Laminar flame speed measurement")}

KindChoices ==
    {Missing, Elem("shock tube"), Elem("rapid compression machine"), Elem("flow reactor")}

SpeciesNames == <<"H2", "O2", "N2", "Ar">>

AmountUnits == {"", "mole fraction", "mass fraction"}

Component(i, units) ==
    [speciesLink |-> Attrs1("preferredKey", SpeciesNames[i]),
     amount |-> [text |-> i, attrib |-> [units |-> units]]]

CompositionProperty(unitSeq) ==
    [attrib |-> [name |-> "initial composition"], value |-> 0,
     components |-> [i \in 1..Len(unitSeq) |-> Component(i, unitSeq[i])]]

ScalarProperty(name, units, value) ==
    [attrib |-> [name |-> name, units |-> units], value |-> value, components |-> <<>>]

\* commonProperties: an optional initial composition, then scalar properties
CompositionChoices ==
    {<<>>} \cup {<<CompositionProperty(u)>> : u \in SeqsUpTo(AmountUnits, MaxComponents)}

OneOrNone(x) == {<<>>, <<x>>}

ScalarChoices ==
    {t \o r \o k : t \in OneOrNone(ScalarProperty("temperature", "K", 1)),
                   r \in OneOrNone(ScalarProperty("pressure rise", "1/ms", 1)),
                   k \in OneOrNone(ScalarProperty("compression time", "ms", 1))}
    \cup {<<ScalarProperty("temperature", "Pa", 1)>>,
          <<ScalarProperty("volume", "cm3", 1)>>}

CommonChoices == {a \o b : a \in CompositionChoices, b \in ScalarChoices}

IgnitionChoices ==
    {Missing,
     ElemA(Attrs1("type", "max")),
     ElemA(Attrs2("target", <<"P">>, "type", "max")),
     ElemA(Attrs2("target", <<"P", ";", "T">>, "type", "max"))}

Column(n, name, units) ==
    [x \in {"id", "name", "units"} |->
        CASE x = "id" -> ColumnId(n) [] x = "name" -> name [] x = "units" -> units]

ColumnChoices ==
    {<<>>,
     <<Column(1, "ignition delay", "ms")>>,
     <<Column(1, "ignition delay", "K")>>,
     <<Column(1, "ignition delay", "ms"), Column(2, "temperature", "K")>>,
     <<Column(1, "ignition delay", "ms"), Column(2, "pressure rise", "1/ms")>>,
     <<Column(1, "composition", "mole fraction")>>}

\* a row with a value in each of its first n columns
Row(n, value) == [i \in 1..n |-> [tag |-> ColumnId(i), text |-> value]]

RowChoices(cols) == {Row(n, 2) : n \in {k \in {1, Len(cols)} : k <= Len(cols)}} \cup {Row(Len(cols), 2)}

FirstGroupChoices ==
    UNION {{[props |-> cols, points |-> rows] : rows \in SeqsUpTo(RowChoices(cols), MaxRows)} :
             cols \in ColumnChoices}

HistoryGroup(n) ==
    [props |-> <<Column(7, "time", "s"), Column(8, "volume", "cm3")>>,
     points |-> [i \in 1..n |-> <<[tag |-> ColumnId(7), text |-> i],
                                  [tag |-> ColumnId(8), text |-> i + 1]>>]]

SecondGroupChoices ==
    {HistoryGroup(n) : n \in 0..MaxSamples}
    \cup {[props |-> <<Column(7, "time", "s")>>, points |-> <<>>]}

DataGroupChoices ==
    {<<>>}
    \cup {<<g>> : g \in FirstGroupChoices}
    \cup {<<g, h>> : g \in FirstGroupChoices, h \in SecondGroupChoices}
    \cup {<<g>> \o [i \in 1..(n - 1) |-> HistoryGroup(1)] :
             g \in FirstGroupChoices, n \in 3..MaxGroups}

----------------------------------------------------------------------------
(* The ChemKED records given to convert_to_ReSpecTh *)

Mixture(k) ==
    [species |-> <<[x \in {"species-name", "amount"} |->
                      IF x = "amount" THEN <<k>> ELSE "H2"]>>,
     kind |-> "mole fraction"]

History(n) ==
    [time |-> [units |-> "s", column |-> 0], volume |-> [units |-> "cm3", column |-> 1],
     values |-> [i \in 1..n |-> <<i, i + 1>>]]

WithOptional(d, key, choice) == IF Len(choice) = 0 THEN d ELSE Put(d, key, choice[1])

\* a datapoint of a ChemKED file
DatapointChoices ==
    {WithOptional(
        WithOptional(
            [x \in {"ignition-delay", "composition", "ignition-type"} |->
                CASE x = "ignition-delay" -> <<QuantityString(tau, "ms")>>
                  [] x = "composition" -> Mixture(mix)
                  [] x = "ignition-type" -> [type |-> "max", target |-> "pressure"]],
            "temperature", t),
        "volume-history", vh) :
            tau \in {5, 6}, mix \in {1, 2},
            t \in {<<>>, <<(<<QuantityString(1, "K")>>)>>, <<(<<QuantityString(2, "K")>>)>>},
            vh \in {<<>>, <<History(MaxSamples)>>}}

ReferenceChoices ==
    {Put(ReferenceFromLookup(Doi, CrossrefMessage), "detail", <<"Converted from XML file">>),
     Attrs1("detail", <<"Smith 2010", ".", "Converted from XML file">>)}

RecordChoices ==
    {[x \in {"file-author", "file-version", "chemked-version", "experiment-type",
             "apparatus", "reference", "datapoints"} |->
        CASE x = "file-author" -> [name |-> "Kyle Niemeyer"]
          [] x = "file-version" -> 0
          [] x = "chemked-version" -> Version
          [] x = "experiment-type" -> "ignition delay"
          [] x = "apparatus" -> [kind |-> "rapid compression machine",
                                 institution |-> "", facility |-> ""]
          [] x = "reference" -> ref
          [] x = "datapoints" -> dps] :
        ref \in ReferenceChoices, dps \in SeqsUpTo(DatapointChoices, MaxPoints) \ {<<>>}}

----------------------------------------------------------------------------
(* convert_ReSpecTh, step by step *)

Abort(e) ==
    /\ pc' = "import failed"
    /\ error' = e

StartImport ==
    /\ UNCHANGED valVars
    /\ pc = "idle"
    /\ pc' = "file metadata"
    /\ UNCHANGED <<root, properties, error, yaml, c, xml, crossref>>

\* line 402
ReadFileMetadata ==
    /\ UNCHANGED valVars
    /\ pc = "file metadata"
    /\ \E fileAuthor \in FileAuthorChoices :
          LET r == get_file_metadata(fileAuthor)
          IN /\ root' = Put(root, "fileAuthor", fileAuthor)
             /\ IF Failed(r)
                THEN Abort(r.err) /\ UNCHANGED properties
                ELSE /\ properties' = r.val
                     /\ pc' = "reference"
                     /\ UNCHANGED error
    /\ UNCHANGED <<yaml, c, xml, crossref>>

\* lines 405-411
ReadReference ==
    /\ UNCHANGED valVars
    /\ pc = "reference"
    /\ \E b \in BibliographyChoices :
          LET r == get_reference(b.elem, b.lookup)
              detail == IF Has(r.val, "detail") THEN r.val["detail"] ELSE <<>>
          IN /\ root' = Put(root, "bibliographyLink", b.elem)
             /\ crossref' = b.lookup
             /\ IF Failed(r)
                THEN Abort(r.err) /\ UNCHANGED properties
                ELSE /\ properties' =
                          Put(properties, "reference",
                              Put(r.val, "detail", Append(detail, "Converted from XML file")))
                     /\ pc' = "experiment kind"
                     /\ UNCHANGED error
    /\ UNCHANGED <<yaml, c, xml>>

\* line 414
ReadExperimentKind ==
    /\ UNCHANGED valVars
    /\ pc = "experiment kind"
    /\ \E experimentType \in ExperimentTypeChoices, kind \in KindChoices :
          LET r == get_experiment_kind(experimentType, kind)
          IN /\ root' = Put(Put(root, "experimentType", experimentType), "kind", kind)
             /\ IF Failed(r)
                THEN Abort(r.err) /\ UNCHANGED properties
                ELSE /\ properties' = Update(properties, r.val)
                     /\ pc' = "common properties"
                     /\ UNCHANGED error
    /\ UNCHANGED <<yaml, c, xml, crossref>>

\* line 417
ReadCommonProperties ==
    /\ UNCHANGED valVars
    /\ pc = "common properties"
    /\ \E commonProperties \in CommonChoices :
          LET r == get_common_properties(commonProperties)
          IN /\ root' = Put(root, "commonProperties", commonProperties)
             /\ IF Failed(r)
                THEN Abort(r.err) /\ UNCHANGED properties
                ELSE /\ properties' = Put(properties, "common-properties", r.val)
                     /\ pc' = "ignition type"
                     /\ UNCHANGED error
    /\ UNCHANGED <<yaml, c, xml, crossref>>

\* line 420
ReadIgnitionType ==
    /\ UNCHANGED valVars
    /\ pc = "ignition type"
    /\ \E ignitionType \in IgnitionChoices :
          LET r == get_ignition_type(ignitionType)
          IN /\ root' = Put(root, "ignitionType", ignitionType)
             /\ IF Failed(r)
                THEN Abort(r.err) /\ UNCHANGED properties
                ELSE /\ properties' =
                          Put(properties, "common-properties",
                              Put(properties["common-properties"], "ignition-type", r.val))
                     /\ pc' = "datapoints"
                     /\ UNCHANGED error
    /\ UNCHANGED <<yaml, c, xml, crossref>>

\* line 423
ReadDatapoints ==
    /\ UNCHANGED valVars
    /\ pc = "datapoints"
    /\ \E dataGroups \in DataGroupChoices :
          LET r == get_datapoints(dataGroups, root["kind"])
          IN /\ root' = Put(root, "dataGroups", dataGroups)
             /\ IF Failed(r)
                THEN Abort(r.err) /\ UNCHANGED properties
                ELSE /\ properties' = Put(properties, "datapoints", r.val)
                     /\ pc' = "combinations"
                     /\ UNCHANGED error
    /\ UNCHANGED <<yaml, c, xml, crossref>>

\* lines 431-484: the combination checks, the common properties applied to
\* the datapoints, the YAML file written
CheckAndWrite ==
    /\ UNCHANGED valVars
    /\ pc = "combinations"
    /\ IF CombinationError(properties).kind # "none"
       THEN Abort(CombinationError(properties)) /\ UNCHANGED <<properties, yaml>>
       ELSE /\ properties' = Broadcast(properties)
            /\ yaml' = Broadcast(properties)
            /\ pc' = "validate"
            /\ UNCHANGED error
    /\ UNCHANGED <<root, c, xml, crossref>>

\* lines 486-489: the written file loaded as a ChemKED object, which
\* validates it, then returned
ValidateWritten ==
    /\ UNCHANGED valVars
    /\ pc = "validate"
    /\ IF Len(ValidationErrors(yaml)) > 0
       THEN /\ pc' = "import failed"
            /\ error' = Raise("ValueError", ValidationErrors(yaml))
            /\ UNCHANGED c
       ELSE /\ c' = ChemKED(yaml)
            /\ pc' = "imported"
            /\ UNCHANGED error
    /\ UNCHANGED <<root, properties, yaml, xml, crossref>>

----------------------------------------------------------------------------
(* convert_to_ReSpecTh *)

Export(ck) ==
    LET r == convert_to_ReSpecTh(ck)
    IN IF Failed(r)
       THEN /\ pc' = "export failed"
            /\ error' = r.err
            /\ UNCHANGED xml
       ELSE /\ pc' = "exported"
            /\ xml' = r.val
            /\ UNCHANGED error

\* export(import(doc)): the file convert_ReSpecTh wrote, converted back
ExportImported ==
    /\ UNCHANGED valVars
    /\ pc = "imported"
    /\ c' = ChemKED(yaml)
    /\ Export(ChemKED(yaml))
    /\ UNCHANGED <<root, properties, yaml, crossref>>

\* any ChemKED file converted
ExportRecord ==
    /\ UNCHANGED valVars
    /\ pc = "idle"
    /\ \E record \in RecordChoices :
          /\ c' = ChemKED(record)
          /\ yaml' = record
          /\ Export(ChemKED(record))
    /\ UNCHANGED <<root, properties, crossref>>

\* the call has ended; the next one starts from scratch
Return ==
    /\ UNCHANGED valVars
    /\ pc \in {"import failed", "imported", "exported", "export failed"}
    /\ pc' = "idle"
    /\ root' = EmptyDict
    /\ properties' = EmptyDict
    /\ error' = NoError
    /\ yaml' = EmptyDict
    /\ c' = EmptyDict
    /\ xml' = EmptyDict
    /\ crossref' = "unused"


----------------------------------------------------------------------------
(* validation.py: compare_name *)

UpperLetters ==
    <<"A", "B", "C", "D", "E", "F", "G", "H", "I", "J", "K", "L", "M",
      "N", "O", "P", "Q", "R", "S", "T", "U", "V", "W", "X", "Y", "Z">>

LowerLetters ==
    <<"a", "b", "c", "d", "e", "f", "g", "h", "i", "j", "k", "l", "m",
      "n", "o", "p", "q", "r", "s", "t", "u", "v", "w", "x", "y", "z">>

LowerOf ==
    [ch \in {UpperLetters[i] : i \in 1..Len(UpperLetters)} |->
        LowerLetters[CHOOSE i \in 1..Len(UpperLetters) : UpperLetters[i] = ch]]

\* str.lower() on one character
Lower(ch) == IF ch \in DOMAIN LowerOf THEN LowerOf[ch] ELSE ch

LowerStr(s) == [i \in 1..Len(s) |-> Lower(s[i])]

\* s.split(sep): the pieces between the separators, empty ones included
RECURSIVE SplitAt(_, _, _)
SplitAt(s, sep, piece) ==
    IF Len(s) = 0 THEN <<piece>>
    ELSE IF Head(s) = sep THEN <<piece>> \o SplitAt(Tail(s), sep, <<>>)
    ELSE SplitAt(Tail(s), sep, Append(piece, Head(s)))

Reverse(s) == [i \in 1..Len(s) |-> s[Len(s) + 1 - i]]

\* sep.join(pieces)
RECURSIVE Join(_, _)
Join(pieces, sep) ==
    IF Len(pieces) = 0 THEN <<>>
    ELSE IF Len(pieces) = 1 THEN pieces[1]
    ELSE pieces[1] \o <<sep>> \o Join(Tail(pieces), sep)

RECURSIVE LStrip(_)
LStrip(s) == IF Len(s) > 0 /\ Head(s) = " " THEN LStrip(Tail(s)) ELSE s

Strip(s) == LStrip(RStrip(s, " "))

NameSeparators == {",", " ", "-", "."}

\* list(filter(None, re.split("[, \-.]+", s)))
RECURSIVE Tokens(_, _)
Tokens(s, piece) ==
    IF Len(s) = 0 THEN (IF Len(piece) = 0 THEN <<>> ELSE <<piece>>)
    ELSE IF Head(s) \in NameSeparators
    THEN (IF Len(piece) = 0 THEN <<>> ELSE <<piece>>) \o Tokens(Tail(s), <<>>)
    ELSE Tokens(Tail(s), Append(piece, Head(s)))

Initial(token) == <<token[1]>>

\* lines 113-120: the middle names
MiddleNames(first_name, given_name) ==
    IF Len(first_name) = 2 /\ Len(given_name) = 2
    THEN [first |-> <<first_name[1], Initial(first_name[2])>>,
          given |-> <<given_name[1], Initial(given_name[2])>>]
    ELSE IF Len(given_name) = 2 /\ Len(first_name) = 1
    THEN [first |-> first_name, given |-> <<given_name[1]>>]
    ELSE IF Len(first_name) = 2 /\ Len(given_name) = 1
    THEN [first |-> <<first_name[1]>>, given |-> given_name]
    ELSE [first |-> first_name, given |-> given_name]

\* lines 122-125: first initial
FirstInitial(n) ==
    IF Len(n.first[1]) = 1 \/ Len(n.given[1]) = 1
    THEN [first |-> [n.first EXCEPT ![1] = Initial(n.first[1])],
          given |-> [n.given EXCEPT ![1] = Initial(n.given[1])]]
    ELSE n

\* lines 127-130: first and middle initials combined
CombinedInitials(n, name_split) ==
    IF Len(n.first[1]) = 2 \/ Len(n.given[1]) = 2
    THEN [first |-> [n.first EXCEPT ![1] = Initial(name_split[1])],
          given |-> [n.given EXCEPT ![1] = Initial(n.given[1])]]
    ELSE n

\* as if the family name were compared as it was written
FamilyNameAsWritten(given_name, family_name, question_name) ==
    LET lowered == LowerStr(question_name)
        question == IF "," \in Range(lowered)
                    THEN Strip(Join(Reverse(SplitAt(lowered, ",", <<>>)), " "))
                    ELSE lowered
        name_split == Tokens(question, <<>>)
        first_name == IF Len(name_split) = 3
                      THEN <<name_split[1], name_split[2]>>
                      ELSE <<name_split[1]>>
        given == Tokens(LowerStr(given_name), <<>>)
        n == CombinedInitials(FirstInitial(MiddleNames(first_name, given)), name_split)
    IN n.given = n.first /\ family_name = name_split[Len(name_split)]

compare_name(given_name, family_name, question_name) ==
    LET lowered == LowerStr(question_name)
        question == IF "," \in Range(lowered)
                    THEN Strip(Join(Reverse(SplitAt(lowered, ",", <<>>)), " "))
                    ELSE lowered
        name_split == Tokens(question, <<>>)
        first_name == IF Len(name_split) = 3
                      THEN <<name_split[1], name_split[2]>>
                      ELSE <<name_split[1]>>
        given == Tokens(LowerStr(given_name), <<>>)
        n == CombinedInitials(FirstInitial(MiddleNames(first_name, given)), name_split)
    IN n.given = n.first /\ LowerStr(family_name) = name_split[Len(name_split)]

----------------------------------------------------------------------------
(* validation.py: OurValidator._validate_isvalid_reference *)

\* orcid[orcid.rfind('/') + 1:]
RECURSIVE AfterLastSlash(_)
AfterLastSlash(s) ==
    IF "/" \notin Range(s) THEN s
    ELSE AfterLastSlash(Tail(s))

\* next((a for a in authors if compare_name(...)), None): the index, 0 for None
AuthorMatch(authors, author) ==
    LET hits == {i \in 1..Len(authors) :
                    compare_name(author.given, author.family, authors[i]["name"])}
    IN IF hits = {} THEN 0 ELSE CHOOSE i \in hits : \A j \in hits : i <= j

\* list.remove(x): without the first x
RemoveFirst(list, x) ==
    LET hits == {i \in 1..Len(list) : list[i] = x}
        first == CHOOSE i \in hits : \A j \in hits : i <= j
    IN SubSeq(list, 1, first - 1) \o SubSeq(list, first + 1, Len(list))

\* lines 259-275: the ORCID of a matched author
CheckAuthorOrcid(res, field, author, author_match) ==
    IF ~Has(author, "ORCID") \/ Len(author["ORCID"]) = 0
    THEN res
    ELSE IF Has(author_match, "ORCID")
    THEN IF author_match["ORCID"] # AfterLastSlash(author["ORCID"])
         THEN WithError(res, field, <<"ORCID does not match that in reference", author_match["name"]>>)
         ELSE res
    ELSE WithWarning(res)

\* lines 243-275: the loop over the authors of the looked-up reference;
\* st holds the result so far and author_names
RECURSIVE AuthorLoop(_, _, _, _, _)
AuthorLoop(field, authors, canonical, i, st) ==
    IF i > Len(canonical) \/ st.res.raised # "none"
    THEN st
    ELSE LET author == canonical[i]
             m == AuthorMatch(authors, author)
         IN IF m = 0
            THEN AuthorLoop(field, authors, canonical, i + 1,
                    [st EXCEPT !.res = WithError(@, field,
                        <<"Missing author", author.given, author.family>>)])
            ELSE IF authors[m]["name"] \notin Range(st.author_names)
            THEN [st EXCEPT !.res.raised = "ValueError"]
            ELSE AuthorLoop(field, authors, canonical, i + 1,
                    [res |-> CheckAuthorOrcid(st.res, field, author, authors[m]),
                     author_names |-> RemoveFirst(st.author_names, authors[m]["name"])])

\* lines 217-238: journal, year, volume, pages
CheckJournal(res, field, value, ref) ==
    IF Has(value, "journal") /\ value["journal"] \notin Range(ref["container-title"])
    THEN WithError(res, field, <<"journal does not match">>)
    ELSE res

\* as if the rule stopped at its first error
CheckYearUnlessError(res, field, value, ref) ==
    IF Len(res.errors) = 0 /\ Has(value, "year") /\ value["year"] # ref["year"]
    THEN WithError(res, field, <<"year should be">>)
    ELSE res

CheckYear(res, field, value, ref) ==
    IF Has(value, "year") /\ value["year"] # ref["year"]
    THEN WithError(res, field, <<"year should be">>)
    ELSE res

CheckVolume(res, field, value, ref) ==
    IF Has(value, "volume") /\ Has(ref, "volume") /\ value["volume"] # IntOf(ref["volume"])
    THEN WithError(res, field, <<"volume number should be">>)
    ELSE res

CheckPages(res, field, value, ref) ==
    IF Has(value, "pages") /\ Has(ref, "page") /\ value["pages"] # ref["page"]
    THEN WithError(res, field, <<"pages should be">>)
    ELSE res

\* lines 240-281: the author roster
CheckAuthors(res, field, value, ref) ==
    LET authors == value["authors"]
        author_names == [i \in 1..Len(authors) |-> authors[i]["name"]]
        st == AuthorLoop(field, authors, ref["author"], 1,
                         [res |-> res, author_names |-> author_names])
    IN IF st.res.raised # "none" THEN st.res
       ELSE IF Len(st.author_names) > 0
       THEN WithError(st.res, field, <<"Extra author(s) given">> \o st.author_names)
       ELSE st.res

\* the rule runs when the schema flags the field, the value has a doi and
\* the validator does not skip
ReferenceRuleRuns(isvalid_reference, value, skip) ==
    isvalid_reference /\ Has(value, "doi") /\ ~skip

validate_isvalid_reference(skip, isvalid_reference, field, value, lookup, ref) ==
    IF ~ReferenceRuleRuns(isvalid_reference, value, skip)
    THEN NoResult
    ELSE LET queried == [NoResult EXCEPT !.lookups = 1]
         IN IF lookup = "notfound"
            THEN WithError(queried, field, <<"DOI not found">>)
            ELSE IF lookup = "unreachable"
            THEN WithWarning(queried)
            ELSE CheckAuthors(
                    CheckPages(
                        CheckVolume(
                            CheckYear(
                                CheckJournal(queried, field, value, ref),
                                field, value, ref),
                            field, value, ref),
                        field, value, ref),
                    field, value, ref)

----------------------------------------------------------------------------
(* validation.py: the ORCID rule *)

\* as if the search were made whether or not the author has an ORCID
SearchesWithoutOrcid(skip, isvalid_orcid, field, value, search) ==
    IF ~(isvalid_orcid /\ ~skip)
    THEN NoResult
    ELSE LET queried == [NoResult EXCEPT !.lookups = 1]
         IN IF search.outcome = "unreachable"
            THEN WithWarning(queried)
            ELSE IF Len(search.found) = 0
            THEN WithError(queried, field, <<"ORCID incorrect or invalid for">>)
            ELSE IF ~compare_name(search.found[1].given, search.found[1].family, value["name"])
            THEN WithError(queried, field, <<"Name and ORCID do not match">>)
            ELSE queried

\* search is how the ORCID query ends: unreachable, or the list of profiles found
validate_isvalid_orcid(skip, isvalid_orcid, field, value, search) ==
    IF ~(isvalid_orcid /\ Has(value, "ORCID") /\ ~skip)
    THEN NoResult
    ELSE LET queried == [NoResult EXCEPT !.lookups = 1]
         IN IF search.outcome = "unreachable"
            THEN WithWarning(queried)
            ELSE IF Len(search.found) = 0
            THEN WithError(queried, field, <<"ORCID incorrect or invalid for">>)
            ELSE IF ~compare_name(search.found[1].given, search.found[1].family, value["name"])
            THEN WithError(queried, field, <<"Name and ORCID do not match">>)
            ELSE queried

----------------------------------------------------------------------------
(* Names and references given to the validator *)

KyleNiemeyer == <<"K", "y", "l", "e", " ", "N", "i", "e", "m", "e", "y", "e", "r">>

KNiemeyer == <<"K", " ", "N", "i", "e", "m", "e", "y", "e", "r">>

JohnSmith == <<"J", "o", "h", "n", " ", "S", "m", "i", "t", "h">>

Kyle == <<"K", "y", "l", "e">>

Niemeyer == <<"N", "i", "e", "m", "e", "y", "e", "r">>

OrcidUrl == <<"h", "t", "t", "p", ":", "/", "/", "o", "r", "c", "i", "d", ".", "o", "r", "g", "/", "0", "1">>

\* authors as Crossref gives them
CanonicalAuthorChoices ==
    {[x \in {"given", "family", "ORCID"} |->
         CASE x = "given" -> Kyle [] x = "family" -> Niemeyer [] x = "ORCID" -> OrcidUrl],
     [x \in {"given", "family"} |->
         CASE x = "given" -> <<"K">> [] x = "family" -> Niemeyer],
     [x \in {"given", "family"} |->
         CASE x = "given" -> <<"J", "o", "h", "n">> [] x = "family" -> <<"S", "m", "i", "t", "h">>]}

\* authors as the ChemKED file gives them
GivenAuthorChoices ==
    {[x \in {"name", "ORCID"} |-> IF x = "name" THEN KyleNiemeyer ELSE <<"0", "2">>],
     Attrs1("name", KNiemeyer),
     Attrs1("name", JohnSmith)}

MaxAuthors == 2

LookedUp(authors, withVolume) ==
    LET base == [x \in {"container-title", "year", "author"} |->
                    CASE x = "container-title" -> <<"Combustion and Flame", "Combust. Flame">>
                      [] x = "year" -> 2010
                      [] x = "author" -> authors]
    IN IF withVolume THEN Put(Put(base, "volume", "157"), "page", "1-10") ELSE base

GivenReference(journal, year, volume, pages, authors) ==
    WithOptional(WithOptional(WithOptional(WithOptional(
        Attrs2("doi", Doi, "authors", authors),
        "journal", journal), "year", year), "volume", volume), "pages", pages)

Matching == <<[x \in {"name"} |-> KyleNiemeyer]>>

MatchingCanonical == <<[x \in {"given", "family"} |-> IF x = "given" THEN Kyle ELSE Niemeyer]>>

\* references that differ in the four fields, with a matching author
FieldCases ==
    {GivenReference(j, y, v, p, Matching) :
        j \in {<<>>, <<"Combustion and Flame">>, <<"Fuel">>},
        y \in {<<>>, <<2010>>, <<2011>>},
        v \in {<<>>, <<157>>, <<158>>},
        p \in {<<>>, <<"1-10">>, <<"1-11">>}}

\* a validation of a reference: the value, how the query ends, what it returns
ReferenceCases ==
    {[value |-> val, lookup |-> "found", ref |-> LookedUp(MatchingCanonical, w)] :
        val \in FieldCases, w \in BOOLEAN}
    \cup {[value |-> val, lookup |-> l, ref |-> EmptyDict] :
        val \in FieldCases, l \in {"notfound", "unreachable"}}
    \cup {[value |-> GivenReference(<<>>, <<>>, <<>>, <<>>, given), lookup |-> "found",
           ref |-> LookedUp(canonical, TRUE)] :
        given \in SeqsUpTo(GivenAuthorChoices, MaxAuthors),
        canonical \in SeqsUpTo(CanonicalAuthorChoices, MaxAuthors)}
    \cup {[value |-> Attrs1("detail", <<"Smith 2010", ".">>), lookup |-> "unused",
           ref |-> EmptyDict]}

\* the references the rule is called on when the schema does not flag the field
UnflaggedCases ==
    {case \in ReferenceCases : case.lookup = "unused" \/ case.value["authors"] = Matching}

\* names compare_name is called with
GivenNames ==
    {Kyle, <<"K">>, <<"K", "y", "l", "e", " ", "E">>, <<"C", "h", "i", "h", "-", "J", "e", "n">>, <<"j", "o", "h", "n">>}

FamilyNames == {Niemeyer, <<"S", "u", "n", "g">>, <<"S", "M", "I", "T", "H">>}

QuestionNames ==
    {KyleNiemeyer, KNiemeyer, JohnSmith,
     <<"K", "y", "l", "e", " ", "E", " ", "N", "i", "e", "m", "e", "y", "e", "r">>,
     <<"K", "y", "l", "e", " ", "E", ".", " ", "N", "i", "e", "m", "e", "y", "e", "r">>,
     <<"K", ".", " ", "E", ".", " ", "N", "i", "e", "m", "e", "y", "e", "r">>,
     <<"K", "E", " ", "N", "i", "e", "m", "e", "y", "e", "r">>,
     <<"C", "h", "i", "h", "-", "J", "e", "n", " ", "S", "u", "n", "g">>,
     <<"C", ".", " ", "J", ".", " ", "S", "u", "n", "g">>,
     <<"C", "-", "J", " ", "S", "u", "n", "g">>,
     <<"k", "y", "l", "e", " ", "n", "i", "e", "m", "e", "y", "e", "r">>,
     <<"J", "e", "n", " ", "S", "u", "n", "g">>,
     <<"N", "i", "e", "m", "e", "y", "e", "r", " ", "K", "y", "l", "e">>}

UnitCases ==
    {[field |-> f, value |-> [value |-> 1, units |-> u]] :
        f \in {"temperature", "pressure"}, u \in {"K", "Pa", "torr", "Torr"}}

QuantityCases ==
    {[field |-> f, value |-> [magnitude |-> m, units |-> u]] :
        f \in {"ignition-delay", "temperature", "pressure"}, m \in {-1, 0, 1},
        u \in {"second", "ms", "K", "Pa"}}

OrcidCases ==
    {[value |-> v, search |-> q] :
        v \in {Attrs1("name", KyleNiemeyer),
               Attrs2("name", KyleNiemeyer, "ORCID", <<"0", "1">>)},
        q \in {[outcome |-> "unreachable", found |-> <<>>],
               [outcome |-> "answered", found |-> <<>>],
               [outcome |-> "answered", found |-> <<[given |-> Kyle, family |-> Niemeyer]>>],
               [outcome |-> "answered",
                found |-> <<[given |-> <<"J", "o", "h", "n">>, family |-> <<"S", "m", "i", "t", "h">>]>>]}}

----------------------------------------------------------------------------
(* validation.py: the skip switch, the validator instances, the rules *)

Validators == {"v1", "v2"}

Called(call, validator, isvalid, input, result) ==
    [call |-> call, validator |-> validator, isvalid |-> isvalid, input |-> input,
     result |-> result]

\* no call into validation.py is under way
Idle == lastCall.call = "none"

\* lines 56-61
disable_validation ==
    /\ Idle
    /\ modSkip' = TRUE
    /\ lastCall' = Called("disable_validation", "module", FALSE, EmptyDict, WithWarning(NoResult))
    /\ UNCHANGED <<validators, convVars>>

\* lines 64-69
enable_validation ==
    /\ Idle
    /\ modSkip' = FALSE
    /\ lastCall' = Called("enable_validation", "module", FALSE, EmptyDict, WithWarning(NoResult))
    /\ UNCHANGED <<validators, convVars>>

\* as if a new validator never skipped, whatever the flag of the module
NeverSkipsAtFirst(flag) == FALSE

\* lines 138-142: self._skip_validation = _mod_skip_validation
InitialSkip(flag) == flag

OurValidator_init ==
    /\ Idle
    /\ \E v \in Validators :
           /\ validators' = [validators EXCEPT ![v] = [made |-> TRUE, skip |-> InitialSkip(modSkip)]]
           /\ lastCall' = Called("__init__", v, FALSE, EmptyDict, NoResult)
           /\ UNCHANGED <<modSkip, convVars>>

\* lines 144-148
OurValidator_disable_validation ==
    /\ Idle
    /\ \E v \in Validators :
           /\ validators[v].made
           /\ validators' = [validators EXCEPT ![v].skip = TRUE]
           /\ lastCall' = Called("OurValidator.disable_validation", v, FALSE, EmptyDict,
                             WithWarning(NoResult))
           /\ UNCHANGED <<modSkip, convVars>>

\* lines 150-154
OurValidator_enable_validation ==
    /\ Idle
    /\ \E v \in Validators :
           /\ validators[v].made
           /\ validators' = [validators EXCEPT ![v].skip = FALSE]
           /\ lastCall' = Called("OurValidator.enable_validation", v, FALSE, EmptyDict,
                             WithWarning(NoResult))
           /\ UNCHANGED <<modSkip, convVars>>

ValidateUnit ==
    /\ Idle
    /\ \E v \in Validators, case \in UnitCases, isvalid \in BOOLEAN :
           /\ validators[v].made
           /\ lastCall' = Called("isvalid_unit", v, isvalid, case,
                             validate_isvalid_unit(validators[v].skip, isvalid, case.field, case.value))
           /\ UNCHANGED <<modSkip, validators, convVars>>

ValidateQuantity ==
    /\ Idle
    /\ \E v \in Validators, case \in QuantityCases, isvalid \in BOOLEAN :
           /\ validators[v].made
           /\ lastCall' = Called("isvalid_quantity", v, isvalid, case,
                             validate_isvalid_quantity(validators[v].skip, isvalid, case.field,
                                                       case.value))
           /\ UNCHANGED <<modSkip, validators, convVars>>

ValidateReference ==
    /\ Idle
    /\ \E v \in Validators, case \in ReferenceCases, isvalid \in BOOLEAN :
           /\ isvalid \/ case \in UnflaggedCases
           /\ validators[v].made
           /\ lastCall' = Called("isvalid_reference", v, isvalid, case,
                             validate_isvalid_reference(validators[v].skip, isvalid, "reference",
                                                        case.value, case.lookup, case.ref))
           /\ UNCHANGED <<modSkip, validators, convVars>>

ValidateOrcid ==
    /\ Idle
    /\ \E v \in Validators, case \in OrcidCases, isvalid \in BOOLEAN :
           /\ validators[v].made
           /\ lastCall' = Called("isvalid_orcid", v, isvalid, case,
                             validate_isvalid_orcid(validators[v].skip, isvalid, "author",
                                                    case.value, case.search))
           /\ UNCHANGED <<modSkip, validators, convVars>>

\* lines 72-132: a call of compare_name
CompareName ==
    /\ Idle
    /\ \E given \in GivenNames, family \in FamilyNames, question \in QuestionNames :
           /\ lastCall' = Called("compare_name", "module", FALSE,
                             [given_name |-> given, family_name |-> family,
                              question_name |-> question],
                             [returned |-> compare_name(given, family, question)])
           /\ UNCHANGED <<modSkip, validators, convVars>>

\* the call has returned and its result has been used
Forget ==
    /\ ~Idle
    /\ lastCall' = Called("none", "none", FALSE, EmptyDict, NoResult)
    /\ UNCHANGED <<modSkip, validators, convVars>>

Init ==
    /\ pc = "idle"
    /\ root = EmptyDict
    /\ properties = EmptyDict
    /\ error = NoError
    /\ yaml = EmptyDict
    /\ c = EmptyDict
    /\ xml = EmptyDict
    /\ crossref = "unused"
    /\ modSkip = FALSE
    /\ validators = [v \in Validators |-> [made |-> FALSE, skip |-> FALSE]]
    /\ lastCall = Called("none", "none", FALSE, EmptyDict, NoResult)

Next ==
    \/ StartImport
    \/ ReadFileMetadata
    \/ ReadReference
    \/ ReadExperimentKind
    \/ ReadCommonProperties
    \/ ReadIgnitionType
    \/ ReadDatapoints
    \/ CheckAndWrite
    \/ ValidateWritten
    \/ ExportImported
    \/ ExportRecord
    \/ Return

Spec == Init /\ [][Next]_vars

NextV ==
    \/ disable_validation
    \/ enable_validation
    \/ OurValidator_init
    \/ OurValidator_disable_validation
    \/ OurValidator_enable_validation
    \/ ValidateUnit
    \/ ValidateQuantity
    \/ ValidateReference
    \/ ValidateOrcid
    \/ CompareName
    \/ Forget

SpecV == Init /\ [][NextV]_vars

----------------------------------------------------------------------------
(* get_ignition_type and the ignitionType element of convert_to_ReSpecTh   *)
(* on their own (SpecI): an element is read, what was read is written as   *)
(* convert_to_ReSpecTh writes the first datapoint's ignition type, and the *)
(* written element is read again.                                          *)

IgnitionTargetTexts ==
    {<<"P">>, <<"T">>, <<"O", "H">>, <<"O", "H", "*">>, <<"C", "H">>, <<"C", "H", "*">>,
     <<"O", "H", "E", "X">>, <<"C", "H", "E", "X">>, <<"o", "h">>, <<"P", ";">>,
     <<"P", ";", "T">>, <<"C", "O">>, <<>>}

IgnitionTypeTexts == {"max", "d/dt max", "1/2 max", "min", "Max"}

IgnitionElements ==
    {Missing, ElemA(Attrs1("type", "max")), ElemA(Attrs1("target", <<"P">>))}
    \cup {ElemA(Attrs2("target", target, "type", type)) :
             target \in IgnitionTargetTexts, type \in IgnitionTypeTexts}

InitI ==
    /\ pc = "ignitionType given"
    /\ root \in {Put(EmptyDict, "ignitionType", elem) : elem \in IgnitionElements}
    /\ properties = EmptyDict
    /\ error = NoError
    /\ yaml = EmptyDict
    /\ c = EmptyDict
    /\ xml = EmptyDict
    /\ crossref = "unused"
    /\ modSkip = FALSE
    /\ validators = [v \in Validators |-> [made |-> FALSE, skip |-> FALSE]]
    /\ lastCall = Called("none", "none", FALSE, EmptyDict, NoResult)

\* get_ignition_type(root)
GetIgnitionType ==
    /\ UNCHANGED valVars
    /\ pc = "ignitionType given"
    /\ LET r == get_ignition_type(root["ignitionType"])
       IN IF Failed(r)
          THEN /\ pc' = "ignitionType refused"
               /\ error' = r.err
               /\ UNCHANGED properties
          ELSE /\ pc' = "ignition type read"
               /\ properties' = Put(EmptyDict, "ignition-type", r.val)
               /\ UNCHANGED error
    /\ UNCHANGED <<root, yaml, c, xml, crossref>>

\* lines 676-685 on a datapoint of that ignition type
WriteIgnitionType ==
    /\ UNCHANGED valVars
    /\ pc = "ignition type read"
    /\ xml' = Put(EmptyDict, "ignitionType",
                  ExportIgnition([ignition_type |-> <<properties["ignition-type"]>>]))
    /\ pc' = "ignitionType written"
    /\ UNCHANGED <<root, properties, error, yaml, c, crossref>>

\* get_ignition_type on the written element
ReadWrittenIgnitionType ==
    /\ UNCHANGED valVars
    /\ pc = "ignitionType written"
    /\ LET r == get_ignition_type(xml["ignitionType"])
       IN IF Failed(r)
          THEN /\ pc' = "written ignitionType refused"
               /\ error' = r.err
               /\ UNCHANGED yaml
          ELSE /\ pc' = "ignition type read again"
               /\ yaml' = Put(EmptyDict, "ignition-type", r.val)
               /\ UNCHANGED error
    /\ UNCHANGED <<root, properties, c, xml, crossref>>

NextI ==
    \/ GetIgnitionType
    \/ WriteIgnitionType
    \/ ReadWrittenIgnitionType

SpecI == InitI /\ [][NextI]_vars

----------------------------------------------------------------------------
(* Properties of convert_ReSpecTh and convert_to_ReSpecTh (Spec) *)

\* the element the failed import read last
LastRead ==
    CASE ~Has(root, "fileAuthor") -> "nothing"
      [] ~Has(root, "bibliographyLink") -> "fileAuthor"
      [] ~Has(root, "kind") -> "bibliographyLink"
      [] ~Has(root, "commonProperties") -> "kind"
      [] ~Has(root, "ignitionType") -> "commonProperties"
      [] ~Has(root, "dataGroups") -> "ignitionType"
      [] OTHER -> "dataGroups"

\* the values the rows of the document's first dataGroup give, row by row
OwnValues(doc) == FirstGroupDatapoints(doc["dataGroups"][1])

\* the values the document's commonProperties give
CommonValues(doc) == get_common_properties(doc["commonProperties"]).val

\* C1: after the common properties are applied, every datapoint still has its
\* own row's value for each property that is both in its row and common.
C1_OwnValueKept ==
    pc \in {"validate", "imported"} =>
        \A i \in 1..Len(OwnValues(root)) :
            \A p \in (DOMAIN OwnValues(root)[i]) \cap (DOMAIN CommonValues(root)) :
                properties["datapoints"][i][p] = OwnValues(root)[i][p]

\* the value of each scalar property of the document's single data point,
\* its own if the row has one, else the common one, in long unit names
EffectiveValues(doc) ==
    LET own == OwnValues(doc)[1]
        common == CommonValues(doc)
        scalars == {"temperature", "pressure", "ignition-delay", "pressure-rise"}
    IN {<<p, Quantity(own[p][1])>> : p \in (DOMAIN own) \cap scalars}
       \cup {<<p, Quantity(common[p][1])>> : p \in ((DOMAIN common) \cap scalars) \ DOMAIN own}

\* a document of one data point, a free-text citation, no volume history
RoundTripDocument(doc) ==
    /\ Has(doc, "dataGroups")
    /\ Len(doc["dataGroups"]) = 1
    /\ Len(doc["dataGroups"][1].points) = 1
    /\ ~Has(doc["bibliographyLink"].attrib, "doi")

\* C2: a document of one data point, without DOI and volume history, that
\* was imported is exported without error, with the same apparatus kind,
\* experiment type, ignition type and target and data-point values.
C2_RoundTrip ==
    (pc \in {"exported", "export failed"} /\ RoundTripDocument(root)) =>
        /\ pc = "exported"
        /\ xml["kind"].text = root["kind"].text
        /\ xml["experimentType"].text = root["experimentType"].text
        /\ get_ignition_type(xml["ignitionType"]) = get_ignition_type(root["ignitionType"])
        /\ EffectiveValues(xml) = EffectiveValues(root)

WellFormedFirstGroup(doc) ==
    /\ Len(doc["dataGroups"]) >= 1
    /\ Len(doc["dataGroups"][1].props) >= 1
    /\ FirstInvalidProperty(doc["dataGroups"][1].props) = 0
    /\ Len(doc["dataGroups"][1].points) >= 1

\* C3: an import that fails on an absent required element, everything read
\* before it being valid, fails with MissingElementError naming the element.
C3_MissingElementNamed ==
    pc = "import failed" =>
        /\ (LastRead = "fileAuthor" /\ ~root["fileAuthor"].present)
              => error = Raise("MissingElementError", <<"fileAuthor">>)
        /\ (LastRead = "bibliographyLink" /\ ~root["bibliographyLink"].present)
              => error = Raise("MissingElementError", <<"bibliographyLink">>)
        /\ (LastRead = "kind" /\ ~root["experimentType"].present)
              => error = Raise("MissingElementError", <<"experimentType">>)
        /\ (LastRead = "kind" /\ root["experimentType"].present
              /\ root["experimentType"].text = "Ignition delay measurement"
              /\ ~root["kind"].present)
              => error = Raise("MissingElementError", <<"apparatus/kind">>)
        /\ (LastRead = "ignitionType" /\ ~root["ignitionType"].present)
              => error = Raise("MissingElementError", <<"ignitionType">>)
        /\ (LastRead = "dataGroups" /\ Len(root["dataGroups"]) = 0)
              => error = Raise("MissingElementError", <<"dataGroup">>)
        /\ (LastRead = "dataGroups" /\ Len(root["dataGroups"]) > 0
              /\ Len(root["dataGroups"][1].props) = 0)
              => error = Raise("MissingElementError", <<"property">>)
        /\ (LastRead = "dataGroups" /\ Len(root["dataGroups"]) > 0
              /\ Len(root["dataGroups"][1].props) > 0
              /\ FirstInvalidProperty(root["dataGroups"][1].props) = 0
              /\ Len(root["dataGroups"][1].points) = 0)
              => error = Raise("MissingElementError", <<"dataPoint">>)

\* an export has ended, with or without an error
ExportEnded == pc \in {"exported", "export failed"}

\* the export gets as far as the volume history: the reference and the first
\* dataGroup are written without error
ReachesVolumeHistory(ck) ==
    /\ ck.experiment_type = "ignition delay"
    /\ ~Failed(ExportReference(ck.reference))
    /\ ~Failed(ExportDataGroup(ck.datapoints))

WithHistory(ck) == {i \in 1..Len(ck.datapoints) : HasVolumeHistory(ck.datapoints[i])}

\* the second dataGroup has a time and a volume column and a row per sample
IsHistoryGroup(group, history) ==
    /\ Len(group.props) = 2
    /\ group.props[1]["name"] = "time"
    /\ group.props[2]["name"] = "volume"
    /\ Len(group.points) = Len(history.time.values)
    /\ \A i \in 1..Len(group.points) :
          /\ RowValue(group.points[i], group.props[1]["id"]) = history.time.values[i]
          /\ RowValue(group.points[i], group.props[2]["id"]) = history.volume.values[i]

PassedChecks == Has(root, "dataGroups") /\ pc \in {"validate", "imported", "exported", "export failed"}

\* the document has a <property> of that name in commonProperties
InCommonProperties(doc, name) ==
    \E i \in 1..Len(doc["commonProperties"]) :
        /\ Has(doc["commonProperties"][i].attrib, "name")
        /\ doc["commonProperties"][i].attrib["name"] = name

\* a row of the document's first dataGroup has a value in a column of that name
InSomeRow(doc, name) ==
    /\ Len(doc["dataGroups"]) >= 1
    /\ \E k \in 1..Len(doc["dataGroups"][1].props) :
          /\ doc["dataGroups"][1].props[k]["name"] = name
          /\ \E i \in 1..Len(doc["dataGroups"][1].points) :
                \E j \in 1..Len(doc["dataGroups"][1].points[i]) :
                    doc["dataGroups"][1].points[i][j].tag = doc["dataGroups"][1].props[k]["id"]

Defines(doc, name) == InCommonProperties(doc, name) \/ InSomeRow(doc, name)

\* the document's second dataGroup, its volume history
WithVolumeHistory(doc) == Len(doc["dataGroups"]) >= 2

\* C6: no import gets past the checks across fields with a document that
\* gives a compression time for a shock tube, a pressure rise for a rapid
\* compression machine, or a volume history together with a pressure rise.
C6_Exclusive ==
    PassedChecks =>
        /\ ~(root["kind"].text = "shock tube" /\ Defines(root, "compression time"))
        /\ ~(root["kind"].text = "rapid compression machine" /\ Defines(root, "pressure rise"))
        /\ ~(WithVolumeHistory(root) /\ Defines(root, "pressure rise"))

\* a document with a volume history and a pressure rise has been refused
C6_Witness ==
    /\ pc = "import failed"
    /\ LastRead = "dataGroups"
    /\ Len(root["dataGroups"]) = 2
    /\ Defines(root, "pressure rise")
    /\ error.kind = "KeywordError"

OneRowOfRCM(doc) ==
    /\ doc["kind"].text = "rapid compression machine"
    /\ Len(doc["dataGroups"][1].points) = 1

\* the volume-history of the datapoint has the rows of the second dataGroup
HistoryOf(datapoint, group) ==
    /\ Has(datapoint, "volume-history")
    /\ Len(datapoint["volume-history"].values) = Len(group.points)
    /\ \A i \in 1..Len(group.points) :
          datapoint["volume-history"].values[i] =
              <<RowValue(group.points[i], TagOf(group.props, "time")),
                RowValue(group.points[i], TagOf(group.props, "volume"))>>

\* C7: of the documents with two dataGroups only those of a rapid compression
\* machine with one row in the first dataGroup are imported, the second
\* dataGroup then being the volume history of the one datapoint; the others
\* fail; with more than two dataGroups, the first being well formed, the
\* import fails with NotImplementedError.
C7_DataGroups ==
    Has(root, "dataGroups") =>
        /\ (Len(root["dataGroups"]) = 2 /\ pc # "import failed") =>
              /\ OneRowOfRCM(root)
              /\ Len(properties["datapoints"]) = 1
              /\ HistoryOf(properties["datapoints"][1], root["dataGroups"][2])
        /\ (Len(root["dataGroups"]) = 2 /\ ~OneRowOfRCM(root)) => pc = "import failed"
        /\ Len(root["dataGroups"]) > 2 => pc = "import failed"
        /\ (Len(root["dataGroups"]) > 2 /\ WellFormedFirstGroup(root)) =>
              error.kind = "NotImplementedError"

\* a document with two dataGroups has been imported: its one datapoint has
\* the volume history of MaxSamples rows
C7_Witness ==
    /\ pc = "imported"
    /\ Len(root["dataGroups"]) = 2
    /\ Len(properties["datapoints"]) = 1
    /\ Len(properties["datapoints"][1]["volume-history"].values) = MaxSamples

\* the amount units of the components of a composition element
UnitsGiven(elem) == {elem.components[i].amount.attrib["units"] : i \in 1..Len(elem.components)}

\* C8: an 'initial composition' whose components differ in units makes the
\* import fail with KeywordError; otherwise the composition read has the one
\* unit as its kind, mole fraction or mass fraction, and a species entry for
\* each component in the order of the document.
C8_CompositionKind ==
    Has(root, "commonProperties") =>
        \A i \in 1..Len(root["commonProperties"]) :
            LET elem == root["commonProperties"][i]
            IN (Has(elem.attrib, "name") /\ elem.attrib["name"] = "initial composition") =>
                IF Cardinality(UnitsGiven(elem)) > 1
                THEN /\ pc = "import failed"
                     /\ LastRead = "commonProperties"
                     /\ error.kind = "KeywordError"
                ELSE Has(properties, "common-properties") =>
                     LET composition == properties["common-properties"]["composition"]
                     IN /\ composition.kind \in UnitsGiven(elem)
                        /\ composition.kind \in {"mole fraction", "mass fraction"}
                        /\ Len(composition.species) = Len(elem.components)
                        /\ \A k \in 1..Len(elem.components) :
                              composition.species[k]["species-name"] =
                                  elem.components[k].speciesLink["preferredKey"]

----------------------------------------------------------------------------
(* Properties of the validator (SpecV) *)

Rules == {"isvalid_unit", "isvalid_quantity", "isvalid_reference", "isvalid_orcid"}

\* C5: a rule that is called while the flag of the module is set reports no
\* error and makes no query, whichever validator it is called on.
C5_GlobalSkip ==
    (modSkip /\ lastCall.call \in Rules) =>
        /\ lastCall.result.errors = <<>>
        /\ lastCall.result.lookups = 0

\* the reference rule ran and the query found the reference
LookupSucceeded ==
    /\ lastCall.call = "isvalid_reference"
    /\ lastCall.result.lookups = 1
    /\ lastCall.input.lookup = "found"

Matches(author, given) == compare_name(author.given, author.family, given["name"])

\* the errors of the result whose message starts with the given words
ErrorsOf(kind) == SelectSeq(lastCall.result.errors, LAMBDA e : e.message[1] = kind)

\* C9: after a successful lookup there is a 'Missing author' error for each
\* author of the looked-up reference that no given author matches, and for
\* no other; one 'Extra author(s)' error naming the given authors that no
\* looked-up author matches, none if there is none; and nothing is raised.
C9_AuthorRoster ==
    LookupSucceeded =>
        LET given == lastCall.input.value["authors"]
            canonical == lastCall.input.ref["author"]
            missing == SelectSeq(canonical,
                          LAMBDA a : \A j \in 1..Len(given) : ~Matches(a, given[j]))
            extra == SelectSeq(given,
                          LAMBDA g : \A i \in 1..Len(canonical) : ~Matches(canonical[i], g))
        IN /\ lastCall.result.raised = "none"
           /\ Len(ErrorsOf("Missing author")) = Len(missing)
           /\ \A k \in 1..Len(missing) :
                 ErrorsOf("Missing author")[k].message =
                     <<"Missing author", missing[k].given, missing[k].family>>
           /\ IF Len(extra) = 0
              THEN ErrorsOf("Extra author(s) given") = <<>>
              ELSE /\ Len(ErrorsOf("Extra author(s) given")) = 1
                   /\ ErrorsOf("Extra author(s) given")[1].message =
                         <<"Extra author(s) given">> \o [k \in 1..Len(extra) |-> extra[k]["name"]]

\* the reference rule was called on a reference with a DOI, validation enabled
RuleApplies ==
    /\ lastCall.call = "isvalid_reference"
    /\ lastCall.isvalid
    /\ Has(lastCall.input.value, "doi")
    /\ ~validators[lastCall.validator].skip

ErrorIf(condition, words) ==
    IF condition THEN <<[field |-> "reference", message |-> <<words>>]>> ELSE <<>>

\* the errors of the four fields that differ from the looked-up reference
FieldErrors(value, ref) ==
    ErrorIf(Has(value, "journal") /\ \A k \in 1..Len(ref["container-title"]) :
                value["journal"] # ref["container-title"][k], "journal does not match")
    \o ErrorIf(Has(value, "year") /\ value["year"] # ref["year"], "year should be")
    \o ErrorIf(Has(value, "volume") /\ Has(ref, "volume")
                /\ value["volume"] # IntOf(ref["volume"]), "volume number should be")
    \o ErrorIf(Has(value, "pages") /\ Has(ref, "page")
                /\ value["pages"] # ref["page"], "pages should be")

FieldWords == {"journal does not match", "year should be", "volume number should be",
               "pages should be"}

\* C10: on a reference with a DOI, validation enabled: a lookup that finds
\* nothing gives the one error 'DOI not found' and nothing else; a lookup that
\* cannot be made gives a warning and no error; a lookup that succeeds gives,
\* for each of journal, year, volume and pages that is given and differs, an
\* error, all of them and in that order.
C10_LookupOutcomes ==
    RuleApplies =>
        CASE lastCall.input.lookup = "notfound" ->
                lastCall.result = [NoResult EXCEPT
                    !.lookups = 1,
                    !.errors = <<[field |-> "reference", message |-> <<"DOI not found">>]>>]
          [] lastCall.input.lookup = "unreachable" ->
                lastCall.result = [NoResult EXCEPT !.lookups = 1, !.warned = 1]
          [] OTHER ->
                /\ lastCall.result.lookups = 1
                /\ SelectSeq(lastCall.result.errors, LAMBDA e : e.message[1] \in FieldWords)
                     = FieldErrors(lastCall.input.value, lastCall.input.ref)

\* the four fields all differ and the four errors are all reported
C10_Witness ==
    /\ RuleApplies
    /\ lastCall.input.lookup = "found"
    /\ Len(lastCall.result.errors) = 4
    /\ Len(FieldErrors(lastCall.input.value, lastCall.input.ref)) = 4

\* the ORCID rule was called on an author, validation enabled
OrcidRuleCalled ==
    /\ lastCall.call = "isvalid_orcid"
    /\ lastCall.isvalid
    /\ ~validators[lastCall.validator].skip

OrcidError(words) == <<[field |-> "author", message |-> <<words>>]>>

\* C11: on an author with an ORCID, validation enabled: a search that finds
\* nothing gives an error; a profile whose name does not match the author's
\* gives an error; a profile whose name matches gives nothing; a search that
\* cannot be made gives a warning and no error.  On an author without ORCID
\* nothing is reported and no search is made.
C11_Identity ==
    OrcidRuleCalled =>
        LET value == lastCall.input.value
            search == lastCall.input.search
            result == lastCall.result
        IN IF ~Has(value, "ORCID")
           THEN result = NoResult
           ELSE /\ result.lookups = 1
                /\ result.raised = "none"
                /\ CASE search.outcome = "unreachable" ->
                          result.errors = <<>> /\ result.warned = 1
                     [] search.outcome # "unreachable" /\ Len(search.found) = 0 ->
                          result.errors = OrcidError("ORCID incorrect or invalid for")
                     [] OTHER ->
                          /\ result.warned = 0
                          /\ result.errors =
                               IF compare_name(search.found[1].given, search.found[1].family,
                                               value["name"])
                               THEN <<>>
                               ELSE OrcidError("Name and ORCID do not match")

\* the profile found for the ORCID has another name than the author
C11_Witness ==
    /\ OrcidRuleCalled
    /\ Has(lastCall.input.value, "ORCID")
    /\ Len(lastCall.input.search.found) = 1
    /\ lastCall.result.errors = OrcidError("Name and ORCID do not match")

\* str.upper() and str.lower() of a name
UpperOf ==
    [ch \in {LowerLetters[i] : i \in 1..Len(LowerLetters)} |->
        UpperLetters[CHOOSE i \in 1..Len(LowerLetters) : LowerLetters[i] = ch]]

RaiseCase(ch) == IF ch \in DOMAIN UpperOf THEN UpperOf[ch] ELSE ch

InCapitals(s) == [i \in 1..Len(s) |-> RaiseCase(s[i])]

InSmallLetters(s) == [i \in 1..Len(s) |-> Lower(s[i])]

\* the name 'Given [Middle] Family' written 'Family, Given [Middle]'
FamilyFirst(name) ==
    LET words == SplitAt(name, " ", <<>>)
    IN words[Len(words)] \o <<",", " ">> \o Join(SubSeq(words, 1, Len(words) - 1), " ")

CompareNameCalled == lastCall.call = "compare_name"

\* C12: compare_name is true of ('Kyle', 'Niemeyer', 'Kyle E Niemeyer') and of
\* ('Chih-Jen', 'Sung', 'C-J Sung') and false of ('Kyle', 'Niemeyer',
\* 'John Smith'); what it returns does not change when an argument is written
\* in capitals or in small letters, nor when the name in question is written
\* family name first with a comma; and it is false when the family name is
\* not the last token of the name in question (letter case aside).
C12_CompareName ==
    CompareNameCalled =>
        LET g == lastCall.input.given_name
            f == lastCall.input.family_name
            q == lastCall.input.question_name
            returned == lastCall.result.returned
            last == Tokens(InSmallLetters(q), <<>>)[Len(Tokens(InSmallLetters(q), <<>>))]
        IN /\ (g = Kyle /\ f = Niemeyer /\ q = <<"K", "y", "l", "e", " ", "E", " ", "N", "i", "e", "m", "e", "y", "e", "r">>) => returned
           /\ (g = <<"C", "h", "i", "h", "-", "J", "e", "n">> /\ f = <<"S", "u", "n", "g">> /\ q = <<"C", "-", "J", " ", "S", "u", "n", "g">>) => returned
           /\ (g = Kyle /\ f = Niemeyer /\ q = JohnSmith) => ~returned
           /\ \A a \in {InCapitals(g), InSmallLetters(g)} : compare_name(a, f, q) = returned
           /\ \A b \in {InCapitals(f), InSmallLetters(f)} : compare_name(g, b, q) = returned
           /\ \A d \in {InCapitals(q), InSmallLetters(q)} : compare_name(g, f, d) = returned
           /\ compare_name(InCapitals(g), InSmallLetters(f), InCapitals(q)) = returned
           /\ compare_name(g, f, FamilyFirst(q)) = returned
           /\ InSmallLetters(f) # last => ~returned

\* a name that matches although it is written in other letter case than the
\* family name, and with initials for the given names
C12_Witness ==
    /\ CompareNameCalled
    /\ lastCall.input.given_name = <<"C", "h", "i", "h", "-", "J", "e", "n">>
    /\ lastCall.input.family_name = <<"S", "u", "n", "g">>
    /\ lastCall.input.question_name = <<"C", ".", " ", "J", ".", " ", "S", "u", "n", "g">>
    /\ lastCall.result.returned

\* the quantity rule was called on a field the schema flags, validation enabled
QuantityRuleCalled ==
    /\ lastCall.call = "isvalid_quantity"
    /\ lastCall.isvalid
    /\ ~validators[lastCall.validator].skip

\* the units are of the dimension of the field's units in property_units
UnitsFit(field, units) ==
    \/ field = "temperature" /\ units \in {"K", "kelvin"}
    \/ field = "pressure" /\ units \in {"Pa", "pascal", "atm", "torr"}
    \/ field \in {"ignition-delay", "compression-time", "time"} /\ units \in {"s", "ms", "second"}
    \/ field = "pressure-rise" /\ units \in {"1/ms", "1/s", "1.0 / second"}
    \/ field = "volume" /\ units \in {"cm3", "meter**3"}

\* C13: on a field flagged as a quantity, validation enabled, the rule reports
\* an error exactly when the units of the quantity do not fit the field or
\* its magnitude is zero or less; '0 second' for the ignition delay is an
\* error, '1 second' is not.
C13_Quantity ==
    QuantityRuleCalled =>
        LET field == lastCall.input.field
            value == lastCall.input.value
            errors == lastCall.result.errors
        IN /\ lastCall.result.raised = "none"
           /\ Len(errors) <= 1
           /\ Len(errors) = 1 <=> (~UnitsFit(field, value.units) \/ value.magnitude <= 0)
           /\ \A k \in 1..Len(errors) : errors[k].field = field
           /\ (field = "ignition-delay" /\ value = [magnitude |-> 0, units |-> "second"])
                => Len(errors) = 1
           /\ (field = "ignition-delay" /\ value = [magnitude |-> 1, units |-> "second"])
                => Len(errors) = 0

\* an ignition delay of '0 second' has been refused for its value
C13_Witness ==
    /\ QuantityRuleCalled
    /\ lastCall.input.field = "ignition-delay"
    /\ lastCall.input.value = [magnitude |-> 0, units |-> "second"]
    /\ Len(lastCall.result.errors) = 1
    /\ lastCall.result.errors[1].message[1] = "value must be greater than 0.0"

\* the unit rule was called on a field the schema flags, validation enabled
UnitRuleCalled ==
    /\ lastCall.call = "isvalid_unit"
    /\ lastCall.isvalid
    /\ ~validators[lastCall.validator].skip

\* C14: the unit rule reports an error exactly when the units do not fit the
\* field (a temperature in Pa is an error), and a pressure in 'Torr' is read
\* as 'torr' and accepted.
C14_UnitsAndTorr ==
    UnitRuleCalled =>
        LET field == lastCall.input.field
            units == IF lastCall.input.value.units = "Torr"
                     THEN "torr" ELSE lastCall.input.value.units
        IN /\ lastCall.result.raised = "none"
           /\ Len(lastCall.result.errors) = 1 <=> ~UnitsFit(field, units)
           /\ Len(lastCall.result.errors) <= 1


----------------------------------------------------------------------------
\* C15: when a conversion ends in an error, no output document has been
\* written: a failed convert_ReSpecTh has left no YAML file, and a failed
\* convert_to_ReSpecTh has left no XML file.
C15_NoPartialOutput ==
    /\ pc = "import failed" => yaml = EmptyDict
    /\ pc = "export failed" => xml = EmptyDict


----------------------------------------------------------------------------
\* the citation get_reference left under 'detail', before convert_ReSpecTh
\* adds its own note to it
CitationOf(ref) == SubSeq(ref["detail"], 1, Len(ref["detail"]) - 1)

\* the text closed by exactly one period
ClosedByOnePeriod(text, key) ==
    /\ Len(text) >= 2
    /\ text[Len(text)] = "."
    /\ text[Len(text) - 1] # "."
    /\ \/ text = key
       \/ text = Append(key, ".")

\* C16: a reference that get_reference returns has a doi or a detail.  With
\* a doi whose lookup succeeds it has the doi and the journal, year, volume,
\* pages and authors of the lookup; without a doi, or when the lookup fails,
\* it has the preferredKey text closed by exactly one period and no doi; with
\* neither a usable doi nor a preferredKey the call raises
\* MissingAttributeError('preferredKey', 'bibliographyLink').
C16_Reference ==
    (Has(root, "bibliographyLink") /\ root["bibliographyLink"].present) =>
        LET attrib == root["bibliographyLink"].attrib
            usable == Has(attrib, "doi") /\ crossref = "found"
        IN /\ Has(properties, "reference") =>
                LET ref == properties["reference"]
                IN /\ Has(ref, "doi") \/ Len(CitationOf(ref)) > 0
                   /\ usable =>
                        /\ Has(ref, "doi") /\ ref["doi"] = attrib["doi"]
                        /\ ref["journal"] = CrossrefMessage.journal
                        /\ ref["year"] = CrossrefMessage.year
                        /\ ref["volume"] = IntOf(CrossrefMessage.volume)
                        /\ ref["pages"] = CrossrefMessage.page
                        /\ Len(ref["authors"]) = Len(CrossrefMessage.author)
                        /\ Len(CitationOf(ref)) = 0
                   /\ ~usable =>
                        /\ ~Has(ref, "doi")
                        /\ Has(attrib, "preferredKey")
                        /\ ClosedByOnePeriod(CitationOf(ref), attrib["preferredKey"])
           /\ (~usable /\ ~Has(attrib, "preferredKey")) =>
                /\ ~Has(properties, "reference")
                /\ pc = "import failed"
                /\ error = Raise("MissingAttributeError", <<"preferredKey", "bibliographyLink">>)


----------------------------------------------------------------------------
\* the names of the properties of the exported commonProperties
ExportedCommon == {xml["commonProperties"][i].attrib.name : i \in 1..Len(xml["commonProperties"])}

\* the names of the columns of the exported first dataGroup
ExportedColumns ==
    {xml["dataGroups"][1].props[n]["name"] : n \in 1..Len(xml["dataGroups"][1].props)}

\* every datapoint has a value of the attribute, the same for all
DefinedAndEqual(dps, attribute) ==
    \A i, j \in 1..Len(dps) : Len(dps[i][attribute]) = 1 /\ dps[i][attribute] = dps[j][attribute]

\* C17: in an exported document the composition is a common property exactly
\* when all datapoints have the same; temperature, pressure and pressure rise
\* are common exactly when there are several datapoints and each has the
\* value, equal for all; ignition delay is never a common property and always
\* a column of the first dataGroup; no property is both common and a column.
C17_CommonFactoring ==
    pc = "exported" =>
        LET dps == c.datapoints
        IN /\ "initial composition" \in ExportedCommon
                <=> \A i, j \in 1..Len(dps) : dps[i]["composition"] = dps[j]["composition"]
           /\ \A name \in {"temperature", "pressure", "pressure rise"} :
                name \in ExportedCommon
                    <=> (Len(dps) > 1 /\ DefinedAndEqual(dps, Underscored(name)))
           /\ "ignition delay" \notin ExportedCommon
           /\ "ignition delay" \in ExportedColumns
           /\ ExportedCommon \cap ExportedColumns = {}
           /\ ~("initial composition" \in ExportedCommon /\ "composition" \in ExportedColumns)


----------------------------------------------------------------------------
\* the export ran on a record whose reference it can write and that has no
\* volume history on several datapoints
ExportedWritable ==
    /\ pc \in {"exported", "export failed"}
    /\ ~Failed(ExportReference(c.reference))
    /\ ~(Len(c.datapoints) > 1 /\ \E i \in 1..Len(c.datapoints) : HasVolumeHistory(c.datapoints[i]))

\* the tracked properties that are not common and that some datapoint has
ColumnsDue(dps, common) ==
    {name \in Range(datagroup_properties) :
        name \notin common /\ \E i \in 1..Len(dps) : Len(dps[i][Underscored(name)]) = 1}

\* the ids of the columns of all exported dataGroups, in document order
ExportedIds ==
    Flatten([g \in 1..Len(xml["dataGroups"]) |->
                [n \in 1..Len(xml["dataGroups"][g].props) |-> xml["dataGroups"][g].props[n]["id"]]])

\* C18: the first exported dataGroup has one column for each tracked property
\* that is not common and that some datapoint has and, when the composition
\* is not common, one for each species; the column ids are x1, x2, ... over
\* both dataGroups; there is one row for each datapoint with one value for
\* each column; the export does not fail when the composition is not common
\* or when a datapoint lacks a property that another has.
C18_FirstGroup ==
    ExportedWritable =>
        /\ pc = "exported"
        /\ LET dps == c.datapoints
               group == xml["dataGroups"][1]
               due == ColumnsDue(dps, ExportedCommon)
               species == IF "initial composition" \in ExportedCommon THEN 0
                          ELSE Len(dps[1]["composition"])
           IN /\ Len(group.props) = Cardinality(due) + species
              /\ {group.props[n]["name"] : n \in 1..Len(group.props)} \ {"composition"} = due
              /\ Cardinality({n \in 1..Len(group.props) : group.props[n]["name"] = "composition"})
                    = species
              /\ \A n \in 1..Len(ExportedIds) : ExportedIds[n] = ColumnId(n)
              /\ Len(group.points) = Len(dps)
              /\ \A i \in 1..Len(group.points) :
                    /\ Len(group.points[i]) = Len(group.props)
                    /\ \A n \in 1..Len(group.props) :
                          group.points[i][n].tag = group.props[n]["id"]


----------------------------------------------------------------------------
(* Properties of the ignition definition (SpecI) *)

\* the element given to get_ignition_type, once the call has ended
IgnitionGiven == IF pc = "ignitionType given" THEN Missing ELSE root["ignitionType"]

IgnitionEnded == pc # "ignitionType given"

IgnitionAccepted == IgnitionEnded /\ Has(properties, "ignition-type")

AllowedTargets ==
    {<<"P">>, <<"T">>, <<"O", "H">>, <<"O", "H", "*">>, <<"C", "H">>, <<"C", "H", "*">>,
     <<"O", "H", "E", "X">>, <<"C", "H", "E", "X">>}

AllowedTypes == {"max", "d/dt max", "1/2 max", "min"}

\* the target of the ChemKED record for a target text of the allow-list
CanonicalTarget(text) ==
    CASE text = <<"P">> -> "pressure"
      [] text = <<"T">> -> "temperature"
      [] text \in {<<"O", "H", "*">>, <<"O", "H", "E", "X">>} -> "OH*"
      [] text \in {<<"C", "H", "*">>, <<"C", "H", "E", "X">>} -> "CH*"
      [] text = <<"O", "H">> -> "OH"
      [] text = <<"C", "H">> -> "CH"

\* the target text in capitals, without semicolons at its end
Normalised(text) ==
    LET kept == {n \in 0..Len(text) : \A i \in (n + 1)..Len(text) : text[i] = ";"}
        n == CHOOSE n \in kept : \A m \in kept : n <= m
    IN InCapitals(SubSeq(text, 1, n))

HasBoth(elem) == elem.present /\ Has(elem.attrib, "target") /\ Has(elem.attrib, "type")

\* the import of an exported ignition definition gives the definition back
IgnitionRoundTrip ==
    /\ pc \in {"ignitionType written", "ignition type read again",
               "written ignitionType refused"} =>
            /\ xml["ignitionType"].attrib["type"] = properties["ignition-type"].type
            /\ properties["ignition-type"].target = "pressure"
                    <=> xml["ignitionType"].attrib["target"] = <<"P">>
            /\ properties["ignition-type"].target = "temperature"
                    <=> xml["ignitionType"].attrib["target"] = <<"T">>
    /\ pc # "written ignitionType refused"
    /\ pc = "ignition type read again" => yaml = properties

\* C19 as stated: the import accepts an ignitionType exactly when its target
\* is one of P, T, OH, OH*, CH, CH*, OHEX, CHEX and its type one of max,
\* d/dt max, 1/2 max, min, and then gives the type and the target, P as
\* pressure and T as temperature; several targets joined by semicolons are
\* refused with NotImplementedError and any other target or type is
\* refused; importing the exported definition gives it back.
C19_AsWritten ==
    /\ IgnitionEnded /\ HasBoth(IgnitionGiven) =>
          LET target == IgnitionGiven.attrib["target"]
              type == IgnitionGiven.attrib["type"]
          IN /\ IgnitionAccepted <=> (target \in AllowedTargets /\ type \in AllowedTypes)
             /\ IgnitionAccepted =>
                    properties["ignition-type"] =
                        [type |-> type, target |-> CanonicalTarget(target)]
             /\ SplitCount(target, ";") > 1 /\ target[Len(target)] # ";" =>
                    pc = "ignitionType refused" /\ error.kind = "NotImplementedError"
    /\ IgnitionRoundTrip

\* C19: the target is read in capitals and without semicolons at its end.
\* The import accepts an ignitionType exactly when the target so read is one
\* of P, T, OH, OH*, CH, CH*, OHEX, CHEX and its type one of max, d/dt max,
\* 1/2 max, min, and then gives the type and the target, P as pressure and T
\* as temperature; several targets joined by semicolons are refused with
\* NotImplementedError and any other target or type is refused; importing
\* the exported definition gives it back.
C19_Ignition ==
    /\ IgnitionEnded /\ HasBoth(IgnitionGiven) =>
          LET target == Normalised(IgnitionGiven.attrib["target"])
              type == IgnitionGiven.attrib["type"]
          IN /\ IgnitionAccepted <=> (target \in AllowedTargets /\ type \in AllowedTypes)
             /\ IgnitionAccepted =>
                    properties["ignition-type"] =
                        [type |-> type, target |-> CanonicalTarget(target)]
             /\ ";" \in Range(target) =>
                    pc = "ignitionType refused" /\ error.kind = "NotImplementedError"
             /\ ~IgnitionAccepted => pc = "ignitionType refused"
    /\ IgnitionRoundTrip

\* an alias target written in small letters was read, written and read again
C19_Witness ==
    /\ pc = "ignition type read again"
    /\ root["ignitionType"].attrib["target"] = <<"o", "h">>
    /\ yaml["ignition-type"].target = "OH"
    /\ yaml["ignition-type"].type = "d/dt max"


----------------------------------------------------------------------------
\* get_file_metadata has ended on the fileAuthor of the document
FileMetadataEnded == Has(root, "fileAuthor")

\* C20: the import of a document whose fileAuthor is absent, or present
\* with no text or with empty text, fails with
\* MissingElementError('fileAuthor'); when get_file_metadata returns, the
\* file-author name is a non-empty string, file-version is 0 and
\* chemked-version is the version of the package.
C20_FileAuthor ==
    FileMetadataEnded =>
        LET fileAuthor == root["fileAuthor"]
            named == fileAuthor.present /\ fileAuthor.text \notin {None, ""}
        IN /\ ~named =>
                /\ pc = "import failed"
                /\ error = Raise("MissingElementError", <<"fileAuthor">>)
           /\ Has(properties, "file-author") =>
                /\ properties["file-author"].name \notin {None, ""}
                /\ properties["file-version"] = 0
                /\ properties["chemked-version"] = Version


----------------------------------------------------------------------------
\* the step is a call of that name, made while no call is under way
CallOf(names) == lastCall.call = "none" /\ lastCall'.call \in names

\* C21: a validator's skip setting is, when it is constructed, the flag of
\* the module at that moment; disable_validation and enable_validation of a
\* validator set that validator's setting and change neither the flag of the
\* module nor any other validator; disable_validation and enable_validation
\* of the module set the flag and change no validator; each of the four
\* calls gives one warning, whatever the setting was before.
C21_SkipIsolation ==
    [][/\ CallOf({"__init__"}) =>
            /\ validators'[lastCall'.validator] = [made |-> TRUE, skip |-> modSkip]
            /\ \A w \in Validators \ {lastCall'.validator} : validators'[w] = validators[w]
            /\ modSkip' = modSkip
       /\ CallOf({"OurValidator.disable_validation", "OurValidator.enable_validation"}) =>
            /\ validators[lastCall'.validator].made
            /\ validators'[lastCall'.validator] =
                  [made |-> TRUE,
                   skip |-> lastCall'.call = "OurValidator.disable_validation"]
            /\ \A w \in Validators \ {lastCall'.validator} : validators'[w] = validators[w]
            /\ modSkip' = modSkip
            /\ lastCall'.result.warned = 1
       /\ CallOf({"disable_validation", "enable_validation"}) =>
            /\ modSkip' = (lastCall'.call = "disable_validation")
            /\ validators' = validators
            /\ lastCall'.result.warned = 1
      ]_vars

\* validation was enabled on one validator while the flag of the module is
\* set and the other validator, made under the set flag, still skips
C21_Witness ==
    /\ lastCall.call = "OurValidator.enable_validation"
    /\ lastCall.validator = "v1"
    /\ lastCall.result.warned = 1
    /\ modSkip
    /\ ~validators["v1"].skip
    /\ validators["v2"].made /\ validators["v2"].skip

=============================================================================
